---- MODULE Spec2Model ----
(***************************************************************************)
(* A model of the dataset decoders and of the verifier of the              *)
(* fem-benchmarks scripts.                                                 *)
(*                                                                         *)
(*   scripts/generate_perfect_yaml_p51.py  parse_dat_file_p51 and the      *)
(*       "inputs" section written by generate_perfect_yaml_p51             *)
(*   scripts/generate_perfect_yamls.py     find_read_statements,           *)
(*       parse_dat_file, create_input_schema, map_dat_to_inputs,           *)
(*       generate_yaml_from_source, process_case and the loop of main      *)
(*   scripts/generate_yaml_from_bundles.py the loop of main                *)
(*   scripts/verify_yamls.py               verify_yaml_file and main       *)
(*                                                                         *)
(* A dataset file is a sequence of lines, a line the sequence of its       *)
(* whitespace-separated tokens.  A token is a record                       *)
(*     k  what Python's int()/float() make of its text:                    *)
(*        "int"  a decimal integer numeral, "real" a numeral only float()  *)
(*        accepts (1.0e6, 0.3), "word" any other text                      *)
(*     v  the number: the integer of an "int" token, the value in tenths   *)
(*        of a "real" token, 0 for a word                                  *)
(*     s  the text of a word, "" for a numeral                             *)
(*     q  the single quotes still around the text:                         *)
(*        "none", "both", "lead" (opening only), "trail" (closing only)    *)
(* Decoded reals are kept in tenths (float("0.3") is 3, float("2") is 20). *)
(* The line cursor idx keeps Python's 0-based value: lines[idx] of the     *)
(* source is ls[idx + 1] here.                                             *)
(***************************************************************************)
EXTENDS Integers, Sequences, FiniteSets, TLC

VARIABLES
    script,       \* the script that runs: "p51", "perfect_yamls" (one call of
                  \* generate_yaml_from_source), "main" (a batch of
                  \* generate_perfect_yamls.py) or "bundles" (a batch of
                  \* generate_yaml_from_bundles.py)
    pc,           \* the position of the run in the script
    dat_exists,   \* p51: whether the case's .dat file exists
    file,         \* p51: the lines of the .dat file
    lines,        \* p51: the local lines of parse_dat_file_p51
    data,         \* p51: the local data
    idx,          \* p51: the line cursor
    i,            \* p51: the loop variable of the current "for i in range(..)"
    exc,          \* p51: the exception that left parse_dat_file_p51, or "none"
    yaml_inputs,  \* p51: the "inputs" section written to the .yaml file
    dat_lines,    \* perfect_yamls: the content lines of the .dat file
    read_stmts,   \* perfect_yamls: the read-statement descriptors
    yaml_dict,    \* perfect_yamls: the document of generate_yaml_from_source
    cases,        \* main: the cases of the batch, in the order of the loop
    case_i,       \* main: the loop variable i of "for i, case in enumerate"
    dry_run,      \* main: args.dry_run
    results,      \* main: what process_case returned, case by case
    success_count,\* main: the local success_count
    outputs,      \* main: the document written for each case (NoDoc: none)
    dumped_keys,  \* main: the keys of 'inputs' in the order they stand in
                  \* the file written for each case (<<>>: none)
    output_dir,   \* main: whether the output directory exists
    benchmarks_dir,\* verify_yamls: whether the benchmarks directory exists
    yaml_files,   \* verify_yamls: sorted(yaml_files), the files of the loop
    yaml_file,    \* verify_yamls: how many files the loop has taken
    all_valid,    \* verify_yamls: the local all_valid
    ids,          \* verify_yamls: the local ids, id -> places of its files
    valid_count,  \* verify_yamls: the local valid_count
    report,       \* verify_yamls: the mark printed for each file
    exit_code     \* verify_yamls: <<>>, or <<n>> once main has returned n

vars == <<script, pc, dat_exists, file, lines, data, idx, i, exc, yaml_inputs,
          dat_lines, read_stmts, yaml_dict,
          cases, case_i, dry_run, results, success_count, outputs,
          dumped_keys, output_dir,
          benchmarks_dir, yaml_files, yaml_file, all_valid, ids, valid_count,
          report, exit_code>>

p51vars == <<dat_exists, file, lines, data, idx, i, exc, yaml_inputs>>

genvars == <<dat_lines, read_stmts, yaml_dict>>

mainvars == <<cases, case_i, dry_run, results, success_count, outputs,
              dumped_keys, output_dir>>

vervars == <<benchmarks_dir, yaml_files, yaml_file, all_valid, ids,
             valid_count, report, exit_code>>

----------------------------------------------------------------------------
(* Bounds of the model.                                                    *)

\* the most benchmark files verify_yamls.py finds
MaxFiles == 2

\* the most lines a generated dataset has after its six header lines
MaxTail == 5

\* the most content lines / read statements given to map_dat_to_inputs
MaxDat == 3

MaxStmts == 3

\* the most lines of a generated .dat file of generate_perfect_yamls.py
MaxRaw == 3

\* the most lines of a generated Fortran source
MaxSrc == 3

\* the most cases of a batch
MaxCases == 2

----------------------------------------------------------------------------
(* Tokens.                                                                 *)

I(n) == [k |-> "int", v |-> n, s |-> "", q |-> "none"]

R(t) == [k |-> "real", v |-> t, s |-> "", q |-> "none"]

W(str) == [k |-> "word", v |-> 0, s |-> str, q |-> "none"]

Q(tok) == [tok EXCEPT !.q = "both"]

\* the empty dict {} and d[key] = value
EmptyDict == [x \in {} |-> 0]

Put(d, key, value) ==
    [x \in (DOMAIN d) \cup {key} |-> IF x = key THEN value ELSE d[x]]

----------------------------------------------------------------------------
(* Conversions of parse_dat_file_p51.                                      *)

\* l.strip().strip("'\"") of line 15, on one line: the quote characters at
\* the two ends of the line go, the ones inside stay.  The first token loses
\* its opening quote and the last token its closing quote.
StripLeft(tok) ==
    [tok EXCEPT !.q = CASE tok.q = "both" -> "trail"
                        [] tok.q = "lead" -> "none"
                        [] OTHER -> tok.q]

StripRight(tok) ==
    [tok EXCEPT !.q = CASE tok.q = "both" -> "lead"
                        [] tok.q = "trail" -> "none"
                        [] OTHER -> tok.q]

StripQuotes(line) ==
    [n \in 1..Len(line) |->
        LET a == IF n = 1 THEN StripLeft(line[n]) ELSE line[n]
        IN  IF n = Len(line) THEN StripRight(a) ELSE a]

\* lines = [l.strip().strip("'\"") for l in f.readlines()]: every line of
\* the file is kept, blank lines included
ReadLines(f) == [n \in 1..Len(f) |-> StripQuotes(f[n])]

\* lines[idx].replace("'", "").split(): no quote is left on any token
Unquote(line) == [n \in 1..Len(line) |-> [line[n] EXCEPT !.q = "none"]]

\* int(text) returns for an unquoted integer numeral and raises ValueError
\* for every other text
CanInt(tok) == tok.k = "int" /\ tok.q = "none"

\* float(text) returns for an unquoted numeral, integer or real
CanFloat(tok) == tok.k \in {"int", "real"} /\ tok.q = "none"

ToInt(tok) == tok.v

\* the value in tenths
ToFloat(tok) == IF tok.k = "int" THEN 10 * tok.v ELSE tok.v

\* [float(x) for x in parts]
FloatList(parts) == [n \in 1..Len(parts) |-> ToFloat(parts[n])]

AllFloat(parts) == \A n \in 1..Len(parts) : CanFloat(parts[n])

----------------------------------------------------------------------------
(* The decoder's frame: st = [pc, data, idx, i, exc].                      *)

Frame(p, d, ix, n, e) == [pc |-> p, data |-> d, idx |-> ix, i |-> n, exc |-> e]

Ok(p, d, ix) == Frame(p, d, ix, 0, "none")

Loop(p, d, ix, n) == Frame(p, d, ix, n, "none")

\* an exception leaves the function: nothing is returned
Raise(d, ix, e) == Frame("raised", d, ix, 0, e)

InitFrame == Ok("r1a", EmptyDict, 0)

----------------------------------------------------------------------------
(* parse_dat_file_p51, block by block.  Each operator is the effect of one *)
(* block of statements on the frame, in the order Python evaluates them:   *)
(* lines[idx] beyond the last line raises IndexError, parts[n] beyond the  *)
(* last token raises IndexError, int()/float() of a text they do not       *)
(* accept raises ValueError.                                               *)

\* lines 21-23: type_2d
R1a(ls, st) ==
    IF st.idx >= Len(ls) THEN Raise(st.data, st.idx, "IndexError")
    ELSE LET parts == Unquote(ls[st.idx + 1])
             d1 == Put(st.data, "type_2d",
                       IF Len(parts) > 0 THEN parts[1] ELSE W("plane"))
         IN  Ok("r1b", d1, st.idx + 1)

\* lines 25-29: element, nod, dir
R1b(ls, st) ==
    IF st.idx >= Len(ls) THEN Raise(st.data, st.idx, "IndexError")
    ELSE LET parts == Unquote(ls[st.idx + 1])
             d1 == Put(st.data, "element",
                       IF Len(parts) > 0 THEN parts[1] ELSE W("quadrilateral"))
         IN  IF Len(parts) > 1 /\ ~CanInt(parts[2])
             THEN Raise(d1, st.idx, "ValueError")
             ELSE LET d2 == Put(d1, "nod",
                                IF Len(parts) > 1 THEN ToInt(parts[2]) ELSE 4)
                      d3 == Put(d2, "dir",
                                IF Len(parts) > 2 THEN parts[3] ELSE W("y"))
                  IN  Ok("r1c", d3, st.idx + 1)

\* the fields of lines 32-35 with their defaults, in statement order
MeshFields == <<"nxe", "nye", "nip", "np_types">>

MeshDefaults == <<2, 2, 4, 1>>

\* lines 31-36: nxe, nye, nip, np_types; the quotes are not removed here
R1c(ls, st) ==
    IF st.idx >= Len(ls) THEN Raise(st.data, st.idx, "IndexError")
    ELSE LET parts == ls[st.idx + 1]
             bad == {n \in 1..4 : Len(parts) >= n /\ ~CanInt(parts[n])}
             \* the fields assigned before the first failing int()
             upto == IF bad = {} THEN 4
                     ELSE (CHOOSE n \in bad : \A m \in bad : n <= m) - 1
             d1 == [x \in (DOMAIN st.data) \cup {MeshFields[n] : n \in 1..upto} |->
                      IF \E n \in 1..upto : MeshFields[n] = x
                      THEN LET n == CHOOSE m \in 1..upto : MeshFields[m] = x
                           IN  IF Len(parts) >= n THEN ToInt(parts[n])
                               ELSE MeshDefaults[n]
                      ELSE st.data[x]]
         IN  IF bad # {} THEN Raise(d1, st.idx, "ValueError")
             ELSE Ok("r2", d1, st.idx + 1)

\* lines 39-42: E, nu (1.0e6 and 0.3 in tenths)
R2(ls, st) ==
    IF st.idx >= Len(ls) THEN Raise(st.data, st.idx, "IndexError")
    ELSE LET parts == ls[st.idx + 1]
         IN  IF Len(parts) > 0 /\ ~CanFloat(parts[1])
             THEN Raise(st.data, st.idx, "ValueError")
             ELSE LET d1 == Put(st.data, "E",
                                IF Len(parts) > 0 THEN ToFloat(parts[1])
                                ELSE 10000000)
                  IN  IF Len(parts) > 1 /\ ~CanFloat(parts[2])
                      THEN Raise(d1, st.idx, "ValueError")
                      ELSE Ok("r3x",
                              Put(d1, "nu",
                                  IF Len(parts) > 1 THEN ToFloat(parts[2]) ELSE 3),
                              st.idx + 1)

\* lines 45-47: x_coords
R3x(ls, st) ==
    IF st.idx >= Len(ls) THEN Raise(st.data, st.idx, "IndexError")
    ELSE LET parts == ls[st.idx + 1]
         IN  IF ~AllFloat(parts) THEN Raise(st.data, st.idx, "ValueError")
             ELSE Ok("r3y", Put(st.data, "x_coords", FloatList(parts)), st.idx + 1)

\* lines 49-51: y_coords
R3y(ls, st) ==
    IF st.idx >= Len(ls) THEN Raise(st.data, st.idx, "IndexError")
    ELSE LET parts == ls[st.idx + 1]
         IN  IF ~AllFloat(parts) THEN Raise(st.data, st.idx, "ValueError")
             ELSE Ok("r4_count", Put(st.data, "y_coords", FloatList(parts)), st.idx + 1)

\* int() or float(), by the declared kind of a column
Accepts(kind, tok) == IF kind = "int" THEN CanInt(tok) ELSE CanFloat(tok)

\* The exception raised while a row's three columns are converted left to
\* right ("none" when all three convert): parts[n] of a missing token raises
\* IndexError, the conversion of a text it does not accept ValueError.
RowError(parts, kinds) ==
    LET bad == {n \in 1..3 : Len(parts) < n \/ ~Accepts(kinds[n], parts[n])}
    IN  IF bad = {} THEN "none"
        ELSE LET n == CHOOSE m \in bad : \A o \in bad : m <= o
             IN  IF Len(parts) < n THEN "IndexError" ELSE "ValueError"

\* lines 54-56: nr, and the empty bc_table
R4Count(ls, st) ==
    IF st.idx >= Len(ls) THEN Raise(st.data, st.idx, "IndexError")
    ELSE LET parts == ls[st.idx + 1]
         IN  IF Len(parts) = 0 THEN Raise(st.data, st.idx, "IndexError")
             ELSE IF ~CanInt(parts[1]) THEN Raise(st.data, st.idx, "ValueError")
             ELSE Loop("r4_row",
                       Put(Put(st.data, "nr", ToInt(parts[1])), "bc_table", <<>>),
                       st.idx, 0)

BcKinds == <<"int", "int", "int">>

\* R4Row with the new row put in front of the table
R4Row_Prepend(ls, st) ==
    LET ix == st.idx + 1
    IN  IF ix >= Len(ls) THEN Raise(st.data, ix, "IndexError")
        ELSE LET bc_parts == ls[ix + 1]
                 err == RowError(bc_parts, BcKinds)
             IN  IF err # "none" THEN Raise(st.data, ix, err)
                 ELSE Loop("r4_row",
                           Put(st.data, "bc_table",
                               <<[node |-> ToInt(bc_parts[1]),
                                  dof1 |-> ToInt(bc_parts[2]),
                                  dof2 |-> ToInt(bc_parts[3])]>>
                               \o st.data["bc_table"]),
                           ix, st.i + 1)

\* lines 57-64, one iteration of "for i in range(data['nr'])"
R4Row(ls, st) ==
    LET ix == st.idx + 1
    IN  IF ix >= Len(ls) THEN Raise(st.data, ix, "IndexError")
        ELSE LET bc_parts == ls[ix + 1]
                 err == RowError(bc_parts, BcKinds)
             IN  IF err # "none" THEN Raise(st.data, ix, err)
                 ELSE Loop("r4_row",
                           Put(st.data, "bc_table",
                               Append(st.data["bc_table"],
                                      [node |-> ToInt(bc_parts[1]),
                                       dof1 |-> ToInt(bc_parts[2]),
                                       dof2 |-> ToInt(bc_parts[3])])),
                           ix, st.i + 1)

\* R4End without the "idx += 1" of line 65
R4End_NoAdvance(ls, st) == Ok("r5_count", st.data, st.idx)

\* line 65, after the loop
R4End(ls, st) == Ok("r5_count", st.data, st.idx + 1)

\* lines 68-70: loaded_nodes, and the empty nodal_loads
R5Count(ls, st) ==
    IF st.idx >= Len(ls) THEN Raise(st.data, st.idx, "IndexError")
    ELSE LET parts == ls[st.idx + 1]
         IN  IF Len(parts) = 0 THEN Raise(st.data, st.idx, "IndexError")
             ELSE IF ~CanInt(parts[1]) THEN Raise(st.data, st.idx, "ValueError")
             ELSE Loop("r5_row",
                       Put(Put(st.data, "loaded_nodes", ToInt(parts[1])),
                           "nodal_loads", <<>>),
                       st.idx, 0)

LoadKinds == <<"int", "real", "real">>

\* R5Row passing over a line of fewer than three tokens, as the loop of
\* lines 88-97 does
R5Row_SkipShort(ls, st) ==
    LET ix == st.idx + 1
    IN  IF ix >= Len(ls) THEN Raise(st.data, ix, "IndexError")
        ELSE LET load_parts == ls[ix + 1]
                 err == RowError(load_parts, LoadKinds)
             IN  IF Len(load_parts) < 3 THEN Loop("r5_row", st.data, ix, st.i + 1)
                 ELSE IF err # "none" THEN Raise(st.data, ix, err)
                 ELSE Loop("r5_row",
                           Put(st.data, "nodal_loads",
                               Append(st.data["nodal_loads"],
                                      [node |-> ToInt(load_parts[1]),
                                       fx |-> ToFloat(load_parts[2]),
                                       fy |-> ToFloat(load_parts[3])])),
                           ix, st.i + 1)

\* lines 71-78, one iteration of "for i in range(data['loaded_nodes'])"
R5Row(ls, st) ==
    LET ix == st.idx + 1
    IN  IF ix >= Len(ls) THEN Raise(st.data, ix, "IndexError")
        ELSE LET load_parts == ls[ix + 1]
                 err == RowError(load_parts, LoadKinds)
             IN  IF err # "none" THEN Raise(st.data, ix, err)
                 ELSE Loop("r5_row",
                           Put(st.data, "nodal_loads",
                               Append(st.data["nodal_loads"],
                                      [node |-> ToInt(load_parts[1]),
                                       fx |-> ToFloat(load_parts[2]),
                                       fy |-> ToFloat(load_parts[3])])),
                           ix, st.i + 1)

\* Mutant of R5End: the "idx += 1" after the loop of record 5 is left out.
R5End_NoAdvance(ls, st) == Ok("r6", st.data, st.idx)

\* line 79, after the loop
R5End(ls, st) == Ok("r6", st.data, st.idx + 1)

\* Mutant of R6: the count is read and the cursor moved, and the count is
\* not stored.
R6_NoCount(ls, st) == Ok("r7_init", st.data, st.idx + 1)

\* lines 82-84: fixed_freedoms
R6(ls, st) ==
    IF st.idx >= Len(ls) THEN Raise(st.data, st.idx, "IndexError")
    ELSE LET parts == ls[st.idx + 1]
         IN  IF Len(parts) = 0 THEN Raise(st.data, st.idx, "IndexError")
             ELSE IF ~CanInt(parts[1]) THEN Raise(st.data, st.idx, "ValueError")
             ELSE Ok("r7_init", Put(st.data, "fixed_freedoms", ToInt(parts[1])),
                     st.idx + 1)

\* line 87: the empty prescribed_displacements
R7Init(ls, st) ==
    Loop("r7_row", Put(st.data, "prescribed_displacements", <<>>), st.idx, 0)

PdKinds == <<"int", "int", "real">>

\* lines 88-97, one iteration of "for i in range(data['fixed_freedoms'])":
\* a missing line is passed over, a line of fewer than three tokens is
\* consumed and gives no row
R7Row(ls, st) ==
    IF st.idx >= Len(ls) THEN Loop("r7_row", st.data, st.idx, st.i + 1)
    ELSE LET pd_parts == ls[st.idx + 1]
         IN  IF Len(pd_parts) < 3 THEN Loop("r7_row", st.data, st.idx + 1, st.i + 1)
             ELSE IF RowError(pd_parts, PdKinds) # "none"
             THEN Raise(st.data, st.idx, RowError(pd_parts, PdKinds))
             ELSE Loop("r7_row",
                       Put(st.data, "prescribed_displacements",
                           Append(st.data["prescribed_displacements"],
                                  [node |-> ToInt(pd_parts[1]),
                                   sense |-> ToInt(pd_parts[2]),
                                   value |-> ToFloat(pd_parts[3])])),
                       st.idx + 1, st.i + 1)

\* line 99: return data
R7Return(ls, st) == Ok("return", st.data, st.idx)

\* One step of the decoder from frame st, by the position st.pc; the frames
\* "return" and "raised" are final.
Step(ls, st) ==
    CASE st.pc = "r1a" -> R1a(ls, st)
      [] st.pc = "r1b" -> R1b(ls, st)
      [] st.pc = "r1c" -> R1c(ls, st)
      [] st.pc = "r2" -> R2(ls, st)
      [] st.pc = "r3x" -> R3x(ls, st)
      [] st.pc = "r3y" -> R3y(ls, st)
      [] st.pc = "r4_count" -> R4Count(ls, st)
      [] st.pc = "r4_row" ->
            IF st.i < st.data["nr"] THEN R4Row(ls, st) ELSE R4End(ls, st)
      [] st.pc = "r5_count" -> R5Count(ls, st)
      [] st.pc = "r5_row" ->
            IF st.i < st.data["loaded_nodes"] THEN R5Row(ls, st) ELSE R5End(ls, st)
      [] st.pc = "r6" -> R6(ls, st)
      [] st.pc = "r7_init" -> R7Init(ls, st)
      [] st.pc = "r7_row" ->
            IF st.i < st.data["fixed_freedoms"] THEN R7Row(ls, st)
            ELSE R7Return(ls, st)
      [] OTHER -> st

RECURSIVE RunFrom(_, _)
RunFrom(ls, st) ==
    IF st.pc \in {"return", "raised"} THEN st ELSE RunFrom(ls, Step(ls, st))

\* Mutant of parse_dat_file_p51: data still holds a key of an earlier run.
parse_dat_file_p51_Stale(f) ==
    RunFrom(ReadLines(f), Ok("r1a", Put(EmptyDict, "previous", 0), 0))

\* parse_dat_file_p51 on the lines of a file, run to its end
parse_dat_file_p51(f) == RunFrom(ReadLines(f), InitFrame)

----------------------------------------------------------------------------
(* generate_perfect_yaml_p51: the "inputs" section of the document.        *)

BcRow(bc) == [node |-> bc.node, nf_flag_dof1 |-> bc.dof1, nf_flag_dof2 |-> bc.dof2]

PdRow(pd) == [node |-> pd.node, sense_dof |-> pd.sense, value |-> pd.value]

\* lines 322-357: record1 .. record6, written for every decoded dataset
FixedRecords(d) ==
    [record1 |-> [type_2d |-> d["type_2d"], element |-> d["element"],
                  nod |-> d["nod"], dir |-> d["dir"], nxe |-> d["nxe"],
                  nye |-> d["nye"], nip |-> d["nip"], np_types |-> d["np_types"]],
     record2 |-> [E |-> d["E"], nu |-> d["nu"]],
     record3 |-> [x_coords |-> d["x_coords"], y_coords |-> d["y_coords"]],
     record4 |-> [nr |-> d["nr"],
                  bc_table |-> [n \in 1..Len(d["bc_table"]) |-> BcRow(d["bc_table"][n])]],
     record5 |-> [loaded_nodes |-> d["loaded_nodes"],
                  nodal_loads |-> d["nodal_loads"]],
     record6 |-> [fixed_freedoms |-> d["fixed_freedoms"]]]

\* lines 359-364: record7, written only for a non-empty table
Record7(d) ==
    [prescribed_displacements |->
        [n \in 1..Len(d["prescribed_displacements"]) |->
            PdRow(d["prescribed_displacements"][n])]]

\* InputsSection writing record7 whether or not the table is empty
InputsSection_AlwaysRecord7(d) == Put(FixedRecords(d), "record7", Record7(d))

\* lines 317-364
InputsSection(d) ==
    IF d["prescribed_displacements"] # <<>>
    THEN Put(FixedRecords(d), "record7", Record7(d))
    ELSE FixedRecords(d)

----------------------------------------------------------------------------
(* Text of generate_perfect_yamls.py.  A line of text is the sequence of   *)
(* its symbols: a blank " ", a comma ",", a comment mark "!", a quote "'", *)
(* a parenthesis "(" or ")", or a run of other characters taken whole (a   *)
(* name, a number, an operator, the read signature).                       *)

\* the first and the last place of s that hold no blank (0 when all blank)
FirstInk(s) ==
    IF \A n \in 1..Len(s) : s[n] = " " THEN 0
    ELSE CHOOSE n \in 1..Len(s) : s[n] # " " /\ \A m \in 1..(n - 1) : s[m] = " "

LastInk(s) ==
    IF \A n \in 1..Len(s) : s[n] = " " THEN 0
    ELSE CHOOSE n \in 1..Len(s) : s[n] # " " /\ \A m \in (n + 1)..Len(s) : s[m] = " "

\* str.strip()
Strip(s) == IF FirstInk(s) = 0 THEN <<>> ELSE SubSeq(s, FirstInk(s), LastInk(s))

\* the first place of s that holds a symbol of the set S (0 when none does)
FirstOf(s, S) ==
    IF \A n \in 1..Len(s) : s[n] \notin S THEN 0
    ELSE CHOOSE n \in 1..Len(s) : s[n] \in S /\ \A m \in 1..(n - 1) : s[m] \notin S

\* Mutant of ParseLoop: the comment test is made on the line as read, before
\* its surrounding blanks are removed.
RECURSIVE ParseLoop_RawComment(_, _, _)
ParseLoop_RawComment(f, n, acc) ==
    IF n > Len(f) THEN acc
    ELSE LET stripped == Strip(f[n])
         IN  ParseLoop_RawComment(f, n + 1,
                 IF stripped # <<>> /\ f[n][1] # "!"
                 THEN Append(acc, stripped) ELSE acc)

\* parse_dat_file, lines 56-61: the loop over the lines of the file from
\* line n on, acc being the list "lines" so far
RECURSIVE ParseLoop(_, _, _)
ParseLoop(f, n, acc) ==
    IF n > Len(f) THEN acc
    ELSE LET stripped == Strip(f[n])
         IN  ParseLoop(f, n + 1,
                 IF stripped # <<>> /\ stripped[1] # "!"
                 THEN Append(acc, stripped) ELSE acc)

\* parse_dat_file, lines 52-65: a file that cannot be opened gives the
\* empty list (and a warning on the terminal)
parse_dat_file(state, f) == IF state = "ok" THEN ParseLoop(f, 1, <<>>) ELSE <<>>

\* the texts re'READ\s*\(\s*10\s*,\s*\*\s*\)' matches, case ignored
SigAtoms == {"READ(10,*)", "read(10,*)", "Read ( 10 , * )"}

\* Mutant of HasSignature: the case of READ is not ignored.
HasSignature_CaseSensitive(line) == \E n \in 1..Len(line) : line[n] = "READ(10,*)"

\* line 29: re.search of the read signature in the line
HasSignature(line) == \E n \in 1..Len(line) : line[n] \in SigAtoms

\* numeric statement labels
Digits == {"10", "20"}

\* line 31: re.sub(r'^\d+\s+', '', stmt)
StripLabel(stmt) ==
    IF Len(stmt) >= 2 /\ stmt[1] \in Digits /\ stmt[2] = " "
    THEN LET rest == SubSeq(stmt, 2, Len(stmt))
         IN  SubSeq(rest, FirstInk(rest), Len(rest))
    ELSE stmt

\* line 34: whether the signature is followed by text, '\s*(.+)'; the
\* statement has no blank at its end, so only a signature that ends the
\* statement is followed by none
VarMatch(stmt) ==
    FirstOf(stmt, SigAtoms) # 0 /\ FirstOf(stmt, SigAtoms) < Len(stmt)

\* line 37: match.group(1).strip()
VarPart(stmt) == Strip(SubSeq(stmt, FirstOf(stmt, SigAtoms) + 1, Len(stmt)))

\* Mutant of CutComment: the comment stays in the variable part.
CutComment_Keep(var_part) == var_part

\* lines 39-40: the text before the first "!"
CutComment(var_part) ==
    IF FirstOf(var_part, {"!"}) # 0
    THEN Strip(SubSeq(var_part, 1, FirstOf(var_part, {"!"}) - 1))
    ELSE var_part

\* line 41: re.split(r'[,\s]+', var_part) without the empty strings: the
\* runs of symbols between commas and blanks, from place n on; cur is the
\* run being read and acc the runs before it
RECURSIVE SplitLoop(_, _, _, _)
SplitLoop(s, n, cur, acc) ==
    IF n > Len(s) THEN (IF cur = <<>> THEN acc ELSE Append(acc, cur))
    ELSE IF s[n] \in {",", " "}
         THEN SplitLoop(s, n + 1, <<>>, IF cur = <<>> THEN acc ELSE Append(acc, cur))
         ELSE SplitLoop(s, n + 1, Append(cur, s[n]), acc)

SplitVars(var_part) == SplitLoop(var_part, 1, <<>>, <<>>)

\* lines 30-47: the descriptor of line number line_num
Descriptor(line_num, line) ==
    LET stmt == StripLabel(Strip(line))
    IN  [line |-> line_num,
         stmt |-> stmt,
         variables |-> IF VarMatch(stmt) THEN SplitVars(CutComment(VarPart(stmt)))
                       ELSE <<>>]

\* Mutant of ReadLoop: a line whose signature is followed by no text gives
\* no descriptor.
RECURSIVE ReadLoop_SkipNoMatch(_, _, _)
ReadLoop_SkipNoMatch(src, n, reads) ==
    IF n > Len(src) THEN reads
    ELSE ReadLoop_SkipNoMatch(src, n + 1,
             IF HasSignature(src[n]) /\ VarMatch(StripLabel(Strip(src[n])))
             THEN Append(reads, Descriptor(n, src[n]))
             ELSE reads)

\* lines 28-47: the loop over the lines of the source from line n on
RECURSIVE ReadLoop(_, _, _)
ReadLoop(src, n, reads) ==
    IF n > Len(src) THEN reads
    ELSE ReadLoop(src, n + 1,
                  IF HasSignature(src[n]) THEN Append(reads, Descriptor(n, src[n]))
                  ELSE reads)

\* find_read_statements, lines 23-50: a file that cannot be opened gives
\* the empty list (and a warning on the terminal)
find_read_statements(state, src) ==
    IF state = "ok" THEN ReadLoop(src, 1, <<>>) ELSE <<>>

\* the symbols that end with the letters "if", whatever their case, and the
\* ones that hold them
EndsWithIf == {"IF", "if", "stif"}

ContainsIf == EndsWithIf \cup {"diff"}

\* The places p of stmt where re'IF\s*\(([^)]+)\)' matches, case ignored:
\* a symbol ending with "if", blanks, "(", at least one symbol that is no
\* ")", and a ")".
OpenAfter(stmt, p) ==
    LET rest == SubSeq(stmt, p + 1, Len(stmt))
    IN  IF FirstInk(rest) = 0 THEN 0
        ELSE IF rest[FirstInk(rest)] = "(" THEN p + FirstInk(rest) ELSE 0

CloseAfter(stmt, q) ==
    LET rest == SubSeq(stmt, q + 1, Len(stmt))
    IN  IF FirstOf(rest, {")"}) = 0 THEN 0 ELSE q + FirstOf(rest, {")"})

IfMatches(stmt) ==
    {p \in 1..Len(stmt) :
        /\ stmt[p] \in EndsWithIf
        /\ OpenAfter(stmt, p) # 0
        /\ CloseAfter(stmt, OpenAfter(stmt, p)) > OpenAfter(stmt, p) + 1}

\* condition_match.group(1) of the leftmost match
IfGroup(stmt) ==
    LET p == CHOOSE x \in IfMatches(stmt) : \A y \in IfMatches(stmt) : x <= y
        q == OpenAfter(stmt, p)
    IN  SubSeq(stmt, q + 1, CloseAfter(stmt, q) - 1)

\* Mutant of SchemaRecord: the record number is the statement's line number.
SchemaRecord_LineNumber(n, read_stmt) ==
    LET record == [record |-> read_stmt.line,
                   fortran_read |-> read_stmt.stmt,
                   variables |-> read_stmt.variables]
    IN  IF (\E m \in 1..Len(read_stmt.stmt) : read_stmt.stmt[m] \in ContainsIf)
           /\ IfMatches(read_stmt.stmt) # {}
        THEN Put(record, "condition",
                 [text |-> "only if", cond |-> IfGroup(read_stmt.stmt)])
        ELSE record

\* create_input_schema, lines 165-175: the record of the n-th descriptor
\* (n counts from 1, as i + 1 does)
SchemaRecord(n, read_stmt) ==
    LET record == [record |-> n,
                   fortran_read |-> read_stmt.stmt,
                   variables |-> read_stmt.variables]
    IN  IF (\E m \in 1..Len(read_stmt.stmt) : read_stmt.stmt[m] \in ContainsIf)
           /\ IfMatches(read_stmt.stmt) # {}
        THEN Put(record, "condition",
                 [text |-> "only if", cond |-> IfGroup(read_stmt.stmt)])
        ELSE record

\* create_input_schema, lines 160-179
create_input_schema(rs) == [n \in 1..Len(rs) |-> SchemaRecord(n, rs[n])]

----------------------------------------------------------------------------
(* generate_perfect_yamls.py: map_dat_to_inputs, generate_yaml_from_source *)

Min(a, b) == IF a <= b THEN a ELSE b

\* f'record{record_num}'
RecordKeys == <<"record1", "record2", "record3", "record4", "record5",
                "record6", "record7", "record8", "record9", "record10",
                "record11", "record12">>

RecordKey(n) == RecordKeys[n]

\* dat_lines[:n]: a slice ends at the end of the list when n is beyond it
SliceTo(dl, n) == SubSeq(dl, 1, IF Len(dl) < n THEN Len(dl) ELSE n)

\* Mutant of MapLoop's caller: every content line gives a record, the lines
\* beyond the read statements with the description 'Additional data'.
RECURSIVE MapLoop_AllLines(_, _, _, _)
MapLoop_AllLines(ls, rs, n, items) ==
    IF n > Len(ls) THEN items
    ELSE MapLoop_AllLines(ls, rs, n + 1,
             Append(items,
                    [key |-> RecordKey(n),
                     value |-> [raw_value |-> ls[n],
                                description |->
                                    IF n <= Len(rs)
                                    THEN [text |-> "Values for",
                                          names |-> rs[n].variables]
                                    ELSE [text |-> "Additional data",
                                          names |-> <<>>]]]))

MapItems_AllLines(dl, rs) == MapLoop_AllLines(dl, rs, 1, <<>>)

\* lines 185-191: the loop over the sliced lines from the n-th on (n is
\* record_num); items are the keys set so far with their values, in the
\* order a dict keeps them
RECURSIVE MapLoop(_, _, _, _)
MapLoop(ls, rs, n, items) ==
    IF n > Len(ls) THEN items
    ELSE MapLoop(ls, rs, n + 1,
             Append(items,
                    [key |-> RecordKey(n),
                     value |-> [raw_value |-> ls[n],
                                description |-> [text |-> "Values for",
                                                 names |-> rs[n].variables]]]))

\* lines 183-192: the items of the dict map_dat_to_inputs returns
MapItems(dl, rs) == MapLoop(SliceTo(dl, Len(rs)), rs, 1, <<>>)

\* the dict of a list of items with distinct keys
DictOf(items) ==
    [key \in {items[n].key : n \in 1..Len(items)} |->
        items[CHOOSE n \in 1..Len(items) : items[n].key = key].value]

\* lines 181-192
map_dat_to_inputs(dl, rs) == DictOf(MapItems(dl, rs))

\* lines 275-280: the keys of 'inputs' in the order they are set
InputsKeys(dl, rs) ==
    <<"working_directory", "basename", "dat_file">>
        \o [n \in 1..Len(MapItems(dl, rs)) |-> MapItems(dl, rs)[n].key]

\* the keys of 'inputs' in alphabetical order
AlphaOrder ==
    <<"basename", "dat_file", "record1", "record10", "record11", "record12",
      "record2", "record3", "record4", "record5", "record6", "record7",
      "record8", "record9", "working_directory">>

\* Mutant of DumpKeys: yaml.dump with its default sort_keys=True.
DumpKeys_Sorted(keys) ==
    SelectSeq(AlphaOrder, LAMBDA a : \E n \in 1..Len(keys) : keys[n] = a)

\* line 344: yaml.dump(.., sort_keys=False) writes the keys of a dict in
\* the order the dict holds them
DumpKeys(keys) == keys

\* lines 275-280: the fixed keys of 'inputs' and the records merged into it
InputsDict(dl, rs) ==
    LET recs == map_dat_to_inputs(dl, rs)
        fixed == {"working_directory", "basename", "dat_file"}
    IN  [key \in fixed \cup DOMAIN recs |->
            IF key \in fixed THEN [text |-> key] ELSE recs[key]]

\* lines 223-304: the document.  The sections built from the program text
\* and the case name only are kept as their names.
generate_yaml_from_source(dl, rs) ==
    [id |-> "id", title |-> "title", purpose |-> "purpose",
     authors |-> "authors",
     code |-> [io_reads_from_unit10 |->
                  [n \in 1..Len(rs) |-> [line |-> rs[n].line, stmt |-> rs[n].stmt]]],
     fem |-> "fem", analysis |-> "analysis", units |-> "units",
     tunable_parameters |-> "tunable_parameters",
     input_schema |-> [file_type |-> ".dat",
                      reads_in_order |-> create_input_schema(rs)],
     inputs |-> InputsDict(dl, rs),
     outputs |-> "outputs", how_to_run |-> "how_to_run",
     notes |-> [read_statements |-> Len(rs)]]

----------------------------------------------------------------------------
(* The datasets the decoder is run on.                                     *)

\* 'plane' / 'quadrilateral' 4 'y' / 2 2 4 1 / 1.0e6 0.3 / 0.0 0.5 1.0 /
\* 0.0 -0.5 : the six lines read before the boundary conditions
GoodHeader ==
    << <<Q(W("plane"))>>,
       <<Q(W("quadrilateral")), I(4), Q(W("y"))>>,
       <<I(2), I(2), I(4), I(1)>>,
       <<R(10000000), R(3)>>,
       <<R(0), R(5), R(10)>>,
       <<R(0), R(-5)>> >>

\* the lines a generated dataset is made of after the header: "0", "1 0 1",
\* "2 1 0", "1 x 1" and "x"; each stands as a count line or as a table row
LineSet ==
    { <<I(0)>>, <<I(1), I(0), I(1)>>, <<I(2), I(1), I(0)>>,
      <<I(1), W("x"), I(1)>>, <<W("x")>> }

Tails == UNION {[1..n -> LineSet] : n \in 0..MaxTail}

ZeroTail == << <<I(0)>>, <<I(0)>>, <<I(0)>> >>

\* a blank line, a word, a quoted numeral
HeaderDefects == { <<>>, <<W("x")>>, <<Q(I(2)), I(2)>> }

HeaderVariants ==
    {[GoodHeader EXCEPT ![n] = l] \o ZeroTail : n \in 1..6, l \in HeaderDefects}

\* 'plane' 'quadrilateral' 4 y 2 2 4 1 on one line
RecordOneLine ==
    <<Q(W("plane")), Q(W("quadrilateral")), I(4), W("y"), I(2), I(2), I(4), I(1)>>

ExtraDatasets ==
    {SubSeq(GoodHeader, 1, n) : n \in 0..5}
    \cup { \* record 1 on one line, then the records 2, 3 and on
           <<RecordOneLine>> \o SubSeq(GoodHeader, 4, 6) \o ZeroTail,
           \* record 1 on one line, then the lines of the usual layout
           <<RecordOneLine>> \o SubSeq(GoodHeader, 2, 6) \o ZeroTail,
           \* 2 / 1 0 1 / 5 1 0
           GoodHeader \o << <<I(2)>>, <<I(1), I(0), I(1)>>, <<I(5), I(1), I(0)>>,
                            <<I(0)>>, <<I(0)>> >>,
           \* 'quadrilateral' four 'y'
           [GoodHeader EXCEPT ![2] = <<Q(W("quadrilateral")), W("four"), Q(W("y"))>>]
               \o ZeroTail,
           \* negative counts
           GoodHeader \o << <<I(-1)>>, <<I(0)>>, <<I(0)>> >>,
           GoodHeader \o << <<I(0)>>, <<I(-1)>>, <<I(0)>> >>,
           GoodHeader \o << <<I(0)>>, <<I(0)>>, <<I(-1)>>, <<I(1), I(0), I(1)>> >>,
           \* real loads
           GoodHeader \o << <<I(0)>>, <<I(1)>>, <<I(1), R(5), R(-15)>>, <<I(0)>> >>,
           \* prescribed displacements: a short line, a blank line, a row
           GoodHeader \o << <<I(0)>>, <<I(0)>>, <<I(3)>>, <<I(1), I(0)>>, <<>>,
                            <<I(1), I(1), R(5)>> >>,
           \* every header line blank
           << <<>>, <<>>, <<>>, <<>>, <<>>, <<>> >> \o ZeroTail }

Datasets == {GoodHeader \o t : t \in Tails} \cup HeaderVariants \cup ExtraDatasets

\* descriptors of the shape find_read_statements gives: line number,
\* statement text, variable list (the last one of a statement without a
\* variable list)
Reads ==
    << [line |-> 27,
        stmt |-> <<"READ(10,*)", "type_2d", ",", "element", ",", "nod", ",", "dir",
                   ",", "nxe", ",", "nye", ",", "nip", ",", "np_types">>,
        variables |-> << <<"type_2d">>, <<"element">>, <<"nod">>, <<"dir">>,
                         <<"nxe">>, <<"nye">>, <<"nip">>, <<"np_types">> >>],
       [line |-> 36, stmt |-> <<"READ(10,*)", "prop">>,
        variables |-> << <<"prop">> >>],
       [line |-> 39, stmt |-> <<"READ(10,*)", "x_coords", ",", "y_coords">>,
        variables |-> << <<"x_coords">>, <<"y_coords">> >>],
       [line |-> 90, stmt |-> <<"READ(10,*)", "fixed_freedoms">>,
        variables |-> << <<"fixed_freedoms">> >>],
       [line |-> 91, stmt |-> <<"READ(10,*)">>, variables |-> <<>>] >>

DatLineSet == {"2 2 4 1", "1.0e6 0.3"}

DatLineSeqs == UNION {[1..n -> DatLineSet] : n \in 0..MaxDat}

----------------------------------------------------------------------------
(* verify_yamls.py.  A value of a loaded YAML document is a record with    *)
(* its Python type as kind: a dict with its set of keys, a str with its    *)
(* text, a list with its set of items, or None.                            *)

DictV(keys) == [kind |-> "dict", keys |-> keys]

StrV(text) == [kind |-> "str", text |-> text]

ListV(items) == [kind |-> "list", items |-> items]

NoneV == [kind |-> "None"]

\* line 19
REQUIRED_KEYS == <<"id", "title", "code", "fem", "analysis", "inputs", "outputs">>

\* the strings of the model that hold the text "source"
HoldSource == {"source", "see source"}

\* line 44: whether 'source' not in v can be evaluated (it raises TypeError
\* for None), and its value
NotInRaises(v) == v.kind = "None"

SourceNotIn(v) ==
    CASE v.kind = "dict" -> "source" \notin v.keys
      [] v.kind = "str" -> v.text \notin HoldSource
      [] v.kind = "list" -> "source" \notin v.items
      [] OTHER -> TRUE

\* line 50: isinstance(yaml_id, str) and yaml_id.strip()
GoodId(v) == v.kind = "str" /\ v.text \notin {"", " "}

\* lines 36-66: the errors of a loaded dict, in the order they are appended
Errors(d) ==
    LET missing_keys == SelectSeq(REQUIRED_KEYS, LAMBDA key : key \notin DOMAIN d)
        MustBeDict(key) ==
            IF key \in DOMAIN d /\ d[key].kind # "dict"
            THEN <<[error |-> "must be a dictionary", key |-> key]>> ELSE <<>>
    IN  (IF missing_keys # <<>>
         THEN <<[error |-> "Missing required keys", keys |-> missing_keys]>>
         ELSE <<>>)
        \o (IF "source" \notin DOMAIN d /\ "authors" \notin DOMAIN d
            THEN <<[error |-> "Missing source information"]>>
            ELSE IF "authors" \in DOMAIN d /\ SourceNotIn(d["authors"])
            THEN <<[error |-> "'authors' present but missing 'authors.source'"]>>
            ELSE <<>>)
        \o (IF "id" \in DOMAIN d /\ ~GoodId(d["id"])
            THEN <<[error |-> "'id' must be a non-empty string"]>> ELSE <<>>)
        \o MustBeDict("source") \o MustBeDict("code") \o MustBeDict("fem")
        \o MustBeDict("analysis")

\* What verify_yaml_file gives for a file: f.load is "ok" when the file
\* opens and parses, f.root the type of the loaded value and f.data the
\* loaded dict.  The result is (is_valid, errors, data), or the TypeError
\* of line 44, which the function does not catch.
Verdict(out, is_valid, errors, d) ==
    [out |-> out, is_valid |-> is_valid, errors |-> errors, data |-> d]

verify_yaml_file(f) ==
    IF f.load = "yaml_error"
    THEN Verdict("return", FALSE, <<[error |-> "YAML parse error"]>>, NoneV)
    ELSE IF f.load = "read_error"
    THEN Verdict("return", FALSE, <<[error |-> "File read error"]>>, NoneV)
    ELSE IF f.root # "dict"
    THEN Verdict("return", FALSE,
                 <<[error |-> "YAML root must be a dictionary"]>>, NoneV)
    ELSE IF /\ ~("source" \notin DOMAIN f.data /\ "authors" \notin DOMAIN f.data)
            /\ "authors" \in DOMAIN f.data
            /\ NotInRaises(f.data["authors"])
    THEN Verdict("TypeError", FALSE, <<>>, NoneV)
    ELSE Verdict("return", Errors(f.data) = <<>>, Errors(f.data), f.data)

----------------------------------------------------------------------------
(* The files verify_yamls.py is run on.                                   *)

\* a benchmark with every required key, and no source information yet
Benchmark(id) ==
    [key \in {"id", "title", "code", "fem", "analysis", "inputs", "outputs"} |->
        CASE key = "id" -> StrV(id)
          [] key = "title" -> StrV("Plane frame")
          [] OTHER -> DictV({"name"})]

Without(d, key) == [x \in (DOMAIN d) \ {key} |-> d[x]]

Loaded(d) == [load |-> "ok", root |-> "dict", data |-> d]

YamlFileSet ==
    {Loaded(Put(Benchmark(id), "authors", DictV({"source"}))) : id \in {"a", "b"}}
    \cup
    {Loaded(Put(Put(Benchmark("a"), "source", DictV({"title"})), "authors", v)) :
        v \in {DictV({"source"}), DictV({"entry"}), StrV("J. Smith"),
               StrV("see source"), ListV({"J. Smith"}), NoneV}}
    \cup
    {Loaded(Put(Benchmark("a"), "source", DictV({"title"}))),
     Loaded(Put(Benchmark("a"), "source", StrV("see source"))),
     Loaded(Benchmark("a")),
     Loaded(Put(Benchmark("b"), "authors", DictV({"entry"}))),
     Loaded(Put(Benchmark(" "), "authors", DictV({"source"}))),
     Loaded(Put(Without(Benchmark("a"), "fem"), "authors", DictV({"source"}))),
     Loaded(EmptyDict),
     [load |-> "ok", root |-> "list", data |-> EmptyDict],
     [load |-> "yaml_error", root |-> "None", data |-> EmptyDict],
     [load |-> "read_error", root |-> "None", data |-> EmptyDict]}

YamlFileLists == UNION {[1..n -> YamlFileSet] : n \in 0..MaxFiles}

----------------------------------------------------------------------------
(* The files generate_perfect_yamls.py is run on.                          *)

\* Lines of a .dat file, as read: blank lines, content lines with and
\* without surrounding blanks, comment lines, quoted lines, and a content
\* line with a comment after its values.
RawLineSet ==
    { <<>>,
      <<" ", " ">>,
      <<"2", " ", "4">>,
      <<" ", "1.0e6", " ", "0.3", " ">>,
      <<"!", "mesh">>,
      <<" ", "!", "loads">>,
      <<"'", "plane", "'">>,
      <<"'", "'">>,
      <<"'", "!", "x", "'">>,
      <<"10", " ", "!", "nr">> }

RawFiles == UNION {[1..n -> RawLineSet] : n \in 0..MaxRaw}

\* Lines of a Fortran source.  text is the line as read; guard is the
\* condition of the IF the read statement stands under (<<>>: none).
SrcLine(text, guard) == [text |-> text, guard |-> guard]

ImpliedLoop ==
    <<"nr", ",", "(", "k", ",", "nf", "(", ":", ",", "k", ")", ",", "i=1", ",",
      "nr", ")">>

NestedGuard == <<"nf", "(", "1", ",", "k", ")", "/=0">>

SrcLineSet ==
    { SrcLine(<<"READ(10,*)", "nels", ",", "nn">>, <<>>),
      SrcLine(<<" ", "read(10,*)", " ", "prop", " ", "!", " ", "e", ",", "v">>,
              <<>>),
      SrcLine(<<"10", " ", "Read ( 10 , * )", " ", "g_coord">>, <<>>),
      SrcLine(<<"READ(10,*)">> \o ImpliedLoop, <<>>),
      SrcLine(<<"IF", "(", "fixed_freedoms/=0", ")", "READ(10,*)", "node">>,
              <<"fixed_freedoms/=0">>),
      SrcLine(<<"if", " ", "(">> \o NestedGuard \o <<")", " ", "read(10,*)", " ",
                "val">>,
              NestedGuard),
      SrcLine(<<"READ(10,*)", "diff", ",", "stif", "(", "1", ")">>, <<>>),
      SrcLine(<<" ", "READ(10,*)", " ">>, <<>>),
      SrcLine(<<"READ(10,*)", "!", "none">>, <<>>),
      SrcLine(<<"READ(11,*)", "nn">>, <<>>),
      SrcLine(<<"!", " ", "program", " ", "p54">>, <<>>),
      SrcLine(<<"!", "READ(10,*)", "old">>, <<>>) }

Sources == UNION {[1..n -> SrcLineSet] : n \in 0..MaxSrc}

\* the text of a source, line by line
Text(source) == [n \in 1..Len(source) |-> source[n].text]

\* A case: the program name case.split('_')[0], and the state ("ok",
\* "missing", "unreadable": it exists and open() raises) and the lines of
\* its source file and of its .dat file.
Case(program, src_state, source, dat_state, raw) ==
    [program |-> program, src_state |-> src_state, source |-> source,
     dat_state |-> dat_state, raw |-> raw]

P54 == <<"p", "5", "4">>

GoodSource ==
    << SrcLine(<<"READ(10,*)", "nels", ",", "nn">>, <<>>),
       SrcLine(<<"IF", "(", "fixed_freedoms/=0", ")", "READ(10,*)", "node">>,
               <<"fixed_freedoms/=0">>) >>

GoodRaw == << <<"2", " ", "4">>, <<"!", "mesh">>, <<" ", "1.0e6", " ", "0.3", " ">> >>

SourceCases == {Case(P54, "ok", s, "ok", GoodRaw) : s \in Sources}

DatCases == {Case(P54, "ok", GoodSource, "ok", r) : r \in RawFiles}

\* a case of eleven reads and eleven content lines
LongCase ==
    Case(P54, "ok",
         [n \in 1..11 |-> SrcLine(<<"READ(10,*)", "nels", ",", "nn">>, <<>>)],
         "ok",
         [n \in 1..11 |-> IF n % 2 = 1 THEN <<"2", " ", "4">>
                                       ELSE <<" ", "1.0e6", " ", "0.3", " ">>])

\* the kinds of case a batch of several cases is made of
CaseKinds ==
    { Case(P54, "ok", GoodSource, "ok", GoodRaw),
      Case(P54, "ok", GoodSource, "ok", <<>>),
      Case(P54, "missing", <<>>, "ok", GoodRaw),
      Case(P54, "ok", GoodSource, "missing", <<>>),
      Case(P54, "unreadable", GoodSource, "ok", GoodRaw),
      Case(P54, "ok", GoodSource, "unreadable", GoodRaw),
      Case(<<"p">>, "ok", GoodSource, "ok", GoodRaw),
      LongCase }

Batches ==
    {<<c>> : c \in SourceCases \cup DatCases}
        \cup UNION {[1..n -> CaseKinds] : n \in 0..MaxCases}

----------------------------------------------------------------------------
(* The state machine.                                                      *)

NoDoc == [x \in {} |-> 0]

\* the variables of main when another script runs
NoBatch ==
    /\ cases = <<>>
    /\ case_i = 0
    /\ dry_run = FALSE
    /\ results = <<>>
    /\ success_count = 0
    /\ outputs = <<>>
    /\ dumped_keys = <<>>
    /\ output_dir = FALSE

NoVerify ==
    /\ benchmarks_dir = FALSE
    /\ yaml_files = <<>>
    /\ yaml_file = 0
    /\ all_valid = TRUE
    /\ ids = EmptyDict
    /\ valid_count = 0
    /\ report = <<>>
    /\ exit_code = <<>>

InitP51 ==
    /\ script = "p51"
    /\ pc = "gen_start"
    /\ dat_exists \in BOOLEAN
    /\ file \in Datasets
    /\ dat_exists = FALSE => file = <<>>
    /\ lines = <<>>
    /\ data = EmptyDict
    /\ idx = 0
    /\ i = 0
    /\ exc = "none"
    /\ yaml_inputs = NoDoc
    /\ dat_lines = <<>>
    /\ read_stmts = <<>>
    /\ yaml_dict = NoDoc
    /\ NoBatch
    /\ NoVerify

InitPerfect ==
    /\ script = "perfect_yamls"
    /\ pc = "g_start"
    /\ dat_exists = TRUE
    /\ file = <<>>
    /\ lines = <<>>
    /\ data = EmptyDict
    /\ idx = 0
    /\ i = 0
    /\ exc = "none"
    /\ yaml_inputs = NoDoc
    /\ dat_lines \in DatLineSeqs
    /\ \E n \in 0..Min(MaxStmts, Len(Reads)) : read_stmts = SubSeq(Reads, 1, n)
    /\ yaml_dict = NoDoc
    /\ NoBatch
    /\ NoVerify

InitMain ==
    /\ script = "main"
    /\ pc = "m_loop"
    /\ dat_exists = TRUE
    /\ file = <<>>
    /\ lines = <<>>
    /\ data = EmptyDict
    /\ idx = 0
    /\ i = 0
    /\ exc = "none"
    /\ yaml_inputs = NoDoc
    /\ dat_lines = <<>>
    /\ read_stmts = <<>>
    /\ yaml_dict = NoDoc
    /\ cases \in Batches
    /\ case_i = 0
    /\ dry_run \in BOOLEAN
    /\ dry_run => \A n \in 1..Len(cases) : cases[n] \in CaseKinds
    /\ results = <<>>
    /\ success_count = 0
    /\ outputs = [n \in 1..Len(cases) |-> NoDoc]
    /\ dumped_keys = [n \in 1..Len(cases) |-> <<>>]
    /\ output_dir \in BOOLEAN
    /\ NoVerify
    /\ output_dir => \A n \in 1..Len(cases) : cases[n] \in CaseKinds

\* What generate_yaml_with_claude returns for a bundle case: a text, the
\* empty text, or None after a failed call.
BundleReplies == {"yaml", "", "None"}

\* generate_yaml_from_bundles.py, main: the cases are the replies they get
InitBundles ==
    /\ script = "bundles"
    /\ pc = "b_loop"
    /\ dat_exists = TRUE
    /\ file = <<>>
    /\ lines = <<>>
    /\ data = EmptyDict
    /\ idx = 0
    /\ i = 0
    /\ exc = "none"
    /\ yaml_inputs = NoDoc
    /\ dat_lines = <<>>
    /\ read_stmts = <<>>
    /\ yaml_dict = NoDoc
    /\ cases \in UNION {[1..n -> BundleReplies] : n \in 1..MaxCases}
    /\ case_i = 0
    /\ dry_run \in BOOLEAN
    /\ results = <<>>
    /\ success_count = 0
    /\ outputs = [n \in 1..Len(cases) |-> NoDoc]
    /\ dumped_keys = [n \in 1..Len(cases) |-> <<>>]
    /\ output_dir \in BOOLEAN
    /\ NoVerify

\* verify_yamls.py main, lines 69-80: the directory, and the files found in
\* it whose name does not start with '_', sorted
InitVerify ==
    /\ script = "verify_yamls"
    /\ pc = "v_start"
    /\ dat_exists = TRUE
    /\ file = <<>>
    /\ lines = <<>>
    /\ data = EmptyDict
    /\ idx = 0
    /\ i = 0
    /\ exc = "none"
    /\ yaml_inputs = NoDoc
    /\ dat_lines = <<>>
    /\ read_stmts = <<>>
    /\ yaml_dict = NoDoc
    /\ NoBatch
    /\ benchmarks_dir \in BOOLEAN
    /\ yaml_files \in YamlFileLists
    /\ benchmarks_dir = FALSE => yaml_files = <<>>
    /\ yaml_file = 0
    /\ all_valid = TRUE
    /\ ids = EmptyDict
    /\ valid_count = 0
    /\ report = <<>>
    /\ exit_code = <<>>

Init == InitP51 \/ InitPerfect \/ InitMain \/ InitBundles \/ InitVerify

Cur == Frame(pc, data, idx, i, exc)

\* the frame after a block becomes the state
Becomes(st) ==
    /\ pc' = st.pc
    /\ data' = st.data
    /\ idx' = st.idx
    /\ i' = st.i
    /\ exc' = st.exc
    /\ UNCHANGED vervars
    /\ UNCHANGED <<script, dat_exists, file, lines, yaml_inputs>>
    /\ UNCHANGED genvars /\ UNCHANGED mainvars

\* generate_perfect_yaml_p51, lines 125-128: no .dat file, no document
DatMissing ==
    /\ script = "p51" /\ pc = "gen_start" /\ ~dat_exists
    /\ pc' = "skipped"
    /\ UNCHANGED vervars
    /\ UNCHANGED <<script>> /\ UNCHANGED p51vars /\ UNCHANGED genvars /\ UNCHANGED mainvars

\* lines 130, 14-18: the file is read, the decoder starts
OpenDat ==
    /\ script = "p51" /\ pc = "gen_start" /\ dat_exists
    /\ lines' = ReadLines(file)
    /\ pc' = InitFrame.pc
    /\ data' = InitFrame.data
    /\ idx' = InitFrame.idx
    /\ i' = 0
    /\ UNCHANGED vervars
    /\ UNCHANGED <<script, dat_exists, file, exc, yaml_inputs>>
    /\ UNCHANGED genvars /\ UNCHANGED mainvars

Record1a == script = "p51" /\ pc = "r1a" /\ Becomes(R1a(lines, Cur))

Record1b == script = "p51" /\ pc = "r1b" /\ Becomes(R1b(lines, Cur))

Record1c == script = "p51" /\ pc = "r1c" /\ Becomes(R1c(lines, Cur))

Record2 == script = "p51" /\ pc = "r2" /\ Becomes(R2(lines, Cur))

Record3x == script = "p51" /\ pc = "r3x" /\ Becomes(R3x(lines, Cur))

Record3y == script = "p51" /\ pc = "r3y" /\ Becomes(R3y(lines, Cur))

Record4Count == script = "p51" /\ pc = "r4_count" /\ Becomes(R4Count(lines, Cur))

Record4Row ==
    /\ script = "p51" /\ pc = "r4_row" /\ i < data["nr"]
    /\ Becomes(R4Row(lines, Cur))

Record4End ==
    /\ script = "p51" /\ pc = "r4_row" /\ ~(i < data["nr"])
    /\ Becomes(R4End(lines, Cur))

Record5Count == script = "p51" /\ pc = "r5_count" /\ Becomes(R5Count(lines, Cur))

Record5Row ==
    /\ script = "p51" /\ pc = "r5_row" /\ i < data["loaded_nodes"]
    /\ Becomes(R5Row(lines, Cur))

Record5End ==
    /\ script = "p51" /\ pc = "r5_row" /\ ~(i < data["loaded_nodes"])
    /\ Becomes(R5End(lines, Cur))

Record6 == script = "p51" /\ pc = "r6" /\ Becomes(R6(lines, Cur))

Record7Init == script = "p51" /\ pc = "r7_init" /\ Becomes(R7Init(lines, Cur))

Record7Row ==
    /\ script = "p51" /\ pc = "r7_row" /\ i < data["fixed_freedoms"]
    /\ Becomes(R7Row(lines, Cur))

Record7Return ==
    /\ script = "p51" /\ pc = "r7_row" /\ ~(i < data["fixed_freedoms"])
    /\ Becomes(R7Return(lines, Cur))

\* lines 136-398: the document is built from the returned data and written
WriteYaml ==
    /\ script = "p51" /\ pc = "return"
    /\ yaml_inputs' = InputsSection(data)
    /\ pc' = "generated"
    /\ UNCHANGED vervars
    /\ UNCHANGED <<script, dat_exists, file, lines, data, idx, i, exc>>
    /\ UNCHANGED genvars /\ UNCHANGED mainvars

\* main, lines 419-422: the exception of a case is caught and reported
MainExcept ==
    /\ script = "p51" /\ pc = "raised"
    /\ pc' = "failed"
    /\ UNCHANGED vervars
    /\ UNCHANGED <<script>> /\ UNCHANGED p51vars /\ UNCHANGED genvars /\ UNCHANGED mainvars

\* generate_perfect_yamls.py, line 337
GenerateYamlFromSource ==
    /\ script = "perfect_yamls" /\ pc = "g_start"
    /\ yaml_dict' = generate_yaml_from_source(dat_lines, read_stmts)
    /\ pc' = "g_done"
    /\ UNCHANGED vervars
    /\ UNCHANGED <<script, dat_lines, read_stmts>> /\ UNCHANGED p51vars
    /\ UNCHANGED mainvars

\* generate_perfect_yamls.py, main, lines 413-414: the loop takes its next
\* case and calls process_case
MainNextCase ==
    /\ script = "main" /\ pc = "m_loop" /\ case_i < Len(cases)
    /\ case_i' = case_i + 1
    /\ pc' = "p_exists"
    /\ dat_lines' = <<>> /\ read_stmts' = <<>> /\ yaml_dict' = NoDoc
    /\ UNCHANGED vervars
    /\ UNCHANGED <<script, cases, dry_run, results, success_count, outputs>>
    /\ UNCHANGED p51vars
    /\ UNCHANGED <<dumped_keys, output_dir>>

\* process_case, lines 315-320: a file that does not exist; the call
\* returns False to line 416
ProcessNotFound ==
    /\ script = "main" /\ pc = "p_exists"
    /\ cases[case_i].src_state = "missing" \/ cases[case_i].dat_state = "missing"
    /\ results' = Append(results, FALSE)
    /\ pc' = "m_loop"
    /\ UNCHANGED vervars
    /\ UNCHANGED <<script, cases, case_i, dry_run, success_count, outputs>>
    /\ UNCHANGED p51vars /\ UNCHANGED genvars
    /\ UNCHANGED <<dumped_keys, output_dir>>

\* process_case, line 326
ProcessFindReads ==
    /\ script = "main" /\ pc = "p_exists"
    /\ cases[case_i].src_state # "missing" /\ cases[case_i].dat_state # "missing"
    /\ read_stmts' = find_read_statements(cases[case_i].src_state,
                                          Text(cases[case_i].source))
    /\ pc' = "p_parse"
    /\ UNCHANGED vervars
    /\ UNCHANGED <<script, dat_lines, yaml_dict>>
    /\ UNCHANGED p51vars /\ UNCHANGED mainvars

\* process_case, line 327
ProcessParseDat ==
    /\ script = "main" /\ pc = "p_parse"
    /\ dat_lines' = parse_dat_file(cases[case_i].dat_state, cases[case_i].raw)
    /\ pc' = "p_dry"
    /\ UNCHANGED vervars
    /\ UNCHANGED <<script, read_stmts, yaml_dict>>
    /\ UNCHANGED p51vars /\ UNCHANGED mainvars

\* Mutant of ProcessDryRun: the output directory is made before dry_run is
\* looked at.
ProcessDryRun_Mkdir ==
    /\ script = "main" /\ pc = "p_dry" /\ dry_run
    /\ output_dir' = TRUE
    /\ results' = Append(results, TRUE)
    /\ success_count' = success_count + 1
    /\ pc' = "m_loop"
    /\ UNCHANGED vervars
    /\ UNCHANGED <<script, cases, case_i, dry_run, outputs, dumped_keys>>
    /\ UNCHANGED p51vars /\ UNCHANGED genvars

\* process_case, lines 332-334, and main, lines 416-417
ProcessDryRun ==
    /\ script = "main" /\ pc = "p_dry" /\ dry_run
    /\ results' = Append(results, TRUE)
    /\ success_count' = success_count + 1
    /\ pc' = "m_loop"
    /\ UNCHANGED vervars
    /\ UNCHANGED <<script, cases, case_i, dry_run, outputs>>
    /\ UNCHANGED p51vars /\ UNCHANGED genvars
    /\ UNCHANGED <<dumped_keys, output_dir>>

\* Mutant of ProcessGenerate: the content lines are taken from a cursor
\* that the cases written before have moved.
ProcessGenerate_SharedCursor ==
    /\ script = "main" /\ pc = "p_dry" /\ ~dry_run
    /\ Len(cases[case_i].program) >= 2
    /\ yaml_dict' = generate_yaml_from_source(
                        SubSeq(dat_lines, success_count + 1, Len(dat_lines)),
                        read_stmts)
    /\ pc' = "p_write"
    /\ UNCHANGED vervars
    /\ UNCHANGED <<script, dat_lines, read_stmts>>
    /\ UNCHANGED p51vars /\ UNCHANGED mainvars

\* process_case, line 337: generate_yaml_from_source returns its document
\* (program[1] at lines 213 and 225 needs a name of two characters)
ProcessGenerate ==
    /\ script = "main" /\ pc = "p_dry" /\ ~dry_run
    /\ Len(cases[case_i].program) >= 2
    /\ yaml_dict' = generate_yaml_from_source(dat_lines, read_stmts)
    /\ pc' = "p_write"
    /\ UNCHANGED vervars
    /\ UNCHANGED <<script, dat_lines, read_stmts>>
    /\ UNCHANGED p51vars /\ UNCHANGED mainvars

\* lines 213 and 225: program[1] of a shorter name raises IndexError, which
\* neither process_case nor main (line 416) catches: the script ends with a
\* traceback
ProcessIndexError ==
    /\ script = "main" /\ pc = "p_dry" /\ ~dry_run
    /\ Len(cases[case_i].program) < 2
    /\ pc' = "m_traceback"
    /\ UNCHANGED vervars
    /\ UNCHANGED <<script>>
    /\ UNCHANGED p51vars /\ UNCHANGED genvars /\ UNCHANGED mainvars

\* process_case, lines 340-347, and main, lines 416-417
ProcessWrite ==
    /\ script = "main" /\ pc = "p_write"
    /\ output_dir' = TRUE
    /\ outputs' = [outputs EXCEPT ![case_i] = yaml_dict]
    /\ dumped_keys' = [dumped_keys EXCEPT
                          ![case_i] = DumpKeys(InputsKeys(dat_lines, read_stmts))]
    /\ results' = Append(results, TRUE)
    /\ success_count' = success_count + 1
    /\ pc' = "m_loop"
    /\ UNCHANGED vervars
    /\ UNCHANGED <<script, cases, case_i, dry_run>>
    /\ UNCHANGED p51vars /\ UNCHANGED genvars

\* main, lines 421-430: the loop is over and the summary is printed
MainSummary ==
    /\ script = "main" /\ pc = "m_loop" /\ case_i = Len(cases)
    /\ pc' = "m_summary"
    /\ UNCHANGED vervars
    /\ UNCHANGED <<script>>
    /\ UNCHANGED p51vars /\ UNCHANGED genvars /\ UNCHANGED mainvars

\* generate_yaml_from_bundles.py, main, lines 261-274: a case of a dry run
BundlesDryRun ==
    /\ script = "bundles" /\ pc = "b_loop" /\ case_i < Len(cases) /\ dry_run
    /\ case_i' = case_i + 1
    /\ UNCHANGED vervars
    /\ UNCHANGED <<script, pc, cases, dry_run, results, success_count, outputs,
                   dumped_keys, output_dir>>
    /\ UNCHANGED p51vars /\ UNCHANGED genvars

\* lines 261-290: a case of a real run; the directory is made, and the file
\* is written when the reply is a text that is not empty
BundlesGenerate ==
    /\ script = "bundles" /\ pc = "b_loop" /\ case_i < Len(cases) /\ ~dry_run
    /\ case_i' = case_i + 1
    /\ output_dir' = TRUE
    /\ IF cases[case_i + 1] = "yaml"
       THEN /\ outputs' = [outputs EXCEPT ![case_i + 1] = [text |-> "yaml"]]
            /\ success_count' = success_count + 1
       ELSE UNCHANGED <<outputs, success_count>>
    /\ UNCHANGED vervars
    /\ UNCHANGED <<script, pc, cases, dry_run, results, dumped_keys>>
    /\ UNCHANGED p51vars /\ UNCHANGED genvars

\* lines 292-295
BundlesSummary ==
    /\ script = "bundles" /\ pc = "b_loop" /\ case_i = Len(cases)
    /\ pc' = "b_summary"
    /\ UNCHANGED vervars
    /\ UNCHANGED <<script>>
    /\ UNCHANGED p51vars /\ UNCHANGED genvars /\ UNCHANGED mainvars

\* verify_yamls.py main, lines 72-74
VerifyNoDirectory ==
    /\ script = "verify_yamls" /\ pc = "v_start" /\ ~benchmarks_dir
    /\ exit_code' = <<1>>
    /\ pc' = "v_return"
    /\ UNCHANGED <<script, benchmarks_dir, yaml_files, yaml_file, all_valid, ids,
                   valid_count, report>>
    /\ UNCHANGED p51vars /\ UNCHANGED genvars /\ UNCHANGED mainvars

\* lines 82-84
VerifyNoFiles ==
    /\ script = "verify_yamls" /\ pc = "v_start" /\ benchmarks_dir
    /\ yaml_files = <<>>
    /\ exit_code' = <<0>>
    /\ pc' = "v_return"
    /\ UNCHANGED <<script, benchmarks_dir, yaml_files, yaml_file, all_valid, ids,
                   valid_count, report>>
    /\ UNCHANGED p51vars /\ UNCHANGED genvars /\ UNCHANGED mainvars

\* lines 86-89
VerifyStart ==
    /\ script = "verify_yamls" /\ pc = "v_start" /\ benchmarks_dir
    /\ yaml_files # <<>>
    /\ all_valid' = TRUE
    /\ ids' = EmptyDict
    /\ valid_count' = 0
    /\ pc' = "v_loop"
    /\ UNCHANGED <<script, benchmarks_dir, yaml_files, yaml_file, report,
                   exit_code>>
    /\ UNCHANGED p51vars /\ UNCHANGED genvars /\ UNCHANGED mainvars

\* line 99
IdsAppend(d, id, path) ==
    Put(d, id, Append(IF id \in DOMAIN d THEN d[id] ELSE <<>>, path))

\* lines 91-99: a file that is valid
VerifyValid ==
    /\ script = "verify_yamls" /\ pc = "v_loop" /\ yaml_file < Len(yaml_files)
    /\ LET v == verify_yaml_file(yaml_files[yaml_file + 1])
       IN  /\ v.out = "return" /\ v.is_valid
           /\ valid_count' = valid_count + 1
           /\ ids' = IF DOMAIN v.data # {} /\ "id" \in DOMAIN v.data
                     THEN IdsAppend(ids, v.data["id"].text, yaml_file + 1)
                     ELSE ids
    /\ report' = Append(report, "valid")
    /\ yaml_file' = yaml_file + 1
    /\ UNCHANGED <<script, pc, benchmarks_dir, yaml_files, all_valid, exit_code>>
    /\ UNCHANGED p51vars /\ UNCHANGED genvars /\ UNCHANGED mainvars

\* lines 91-93, 100-104: a file that is not
VerifyInvalid ==
    /\ script = "verify_yamls" /\ pc = "v_loop" /\ yaml_file < Len(yaml_files)
    /\ LET v == verify_yaml_file(yaml_files[yaml_file + 1])
       IN  v.out = "return" /\ ~v.is_valid
    /\ all_valid' = FALSE
    /\ report' = Append(report, "invalid")
    /\ yaml_file' = yaml_file + 1
    /\ UNCHANGED <<script, pc, benchmarks_dir, yaml_files, ids, valid_count,
                   exit_code>>
    /\ UNCHANGED p51vars /\ UNCHANGED genvars /\ UNCHANGED mainvars

\* lines 93, 44: the TypeError of verify_yaml_file leaves main
VerifyTypeError ==
    /\ script = "verify_yamls" /\ pc = "v_loop" /\ yaml_file < Len(yaml_files)
    /\ verify_yaml_file(yaml_files[yaml_file + 1]).out = "TypeError"
    /\ pc' = "v_traceback"
    /\ UNCHANGED <<script>> /\ UNCHANGED vervars
    /\ UNCHANGED p51vars /\ UNCHANGED genvars /\ UNCHANGED mainvars

\* Mutant of Duplicates: no id is ever reported twice.
Duplicates_None(d) == {}

\* line 108
Duplicates(d) == {id \in DOMAIN d : Len(d[id]) > 1}

\* lines 106-125: the duplicate ids, the summary and the return
VerifySummary ==
    /\ script = "verify_yamls" /\ pc = "v_loop" /\ yaml_file = Len(yaml_files)
    /\ all_valid' = (all_valid /\ Duplicates(ids) = {})
    /\ exit_code' = <<IF all_valid' THEN 0 ELSE 1>>
    /\ pc' = "v_return"
    /\ UNCHANGED <<script, benchmarks_dir, yaml_files, yaml_file, ids,
                   valid_count, report>>
    /\ UNCHANGED p51vars /\ UNCHANGED genvars /\ UNCHANGED mainvars

Next ==
    \/ DatMissing
    \/ OpenDat
    \/ Record1a
    \/ Record1b
    \/ Record1c
    \/ Record2
    \/ Record3x
    \/ Record3y
    \/ Record4Count
    \/ Record4Row
    \/ Record4End
    \/ Record5Count
    \/ Record5Row
    \/ Record5End
    \/ Record6
    \/ Record7Init
    \/ Record7Row
    \/ Record7Return
    \/ WriteYaml
    \/ MainExcept
    \/ GenerateYamlFromSource
    \/ MainNextCase
    \/ ProcessNotFound
    \/ ProcessFindReads
    \/ ProcessParseDat
    \/ ProcessDryRun
    \/ ProcessGenerate
    \/ ProcessIndexError
    \/ ProcessWrite
    \/ MainSummary
    \/ BundlesDryRun
    \/ BundlesGenerate
    \/ BundlesSummary
    \/ VerifyNoDirectory
    \/ VerifyNoFiles
    \/ VerifyStart
    \/ VerifyValid
    \/ VerifyInvalid
    \/ VerifyTypeError
    \/ VerifySummary

Spec == Init /\ [][Next]_vars

----------------------------------------------------------------------------
(* Properties.                                                             *)

\* parse_dat_file_p51 has returned its data
Returned == script = "p51" /\ pc \in {"return", "generated"}

Max0(n) == IF n >= 0 THEN n ELSE 0

\* C1: once parse_dat_file_p51 has returned, a table has as many rows as its
\* leading count field says: len(bc_table) = nr and len(nodal_loads) =
\* loaded_nodes, for every count 0, 1, 2, ...
C1_TableRowsEqualCount ==
    Returned =>
        /\ data["nr"] >= 0 => Len(data["bc_table"]) = data["nr"]
        /\ data["loaded_nodes"] >= 0 =>
               Len(data["nodal_loads"]) = data["loaded_nodes"]

C1_Witness ==
    /\ Returned
    /\ data["nr"] = 1 /\ Len(data["bc_table"]) = 1
    /\ data["loaded_nodes"] = 1 /\ Len(data["nodal_loads"]) = 1

\* C2: when fixed_freedoms is 0, no step of the group of record 7 moves the
\* line cursor, and the document written has no record7.
C2_GuardZeroSkipsGroup ==
    /\ [][(/\ script = "p51"
           /\ pc \in {"r7_init", "r7_row"}
           /\ data["fixed_freedoms"] = 0)
          => (idx' = idx /\ pc' \in {"r7_row", "return"})]_vars
    /\ [](script = "p51" /\ pc = "generated" /\ data["fixed_freedoms"] = 0
             => "record7" \notin DOMAIN yaml_inputs)

C2_Witness ==
    /\ script = "p51" /\ pc = "generated"
    /\ data["fixed_freedoms"] = 0
    /\ "record6" \in DOMAIN yaml_inputs
    /\ "record7" \notin DOMAIN yaml_inputs
    /\ idx < Len(lines)

\* C3: the decoder never ends in an exception, whatever the lines of the
\* dataset are.
C3_NeverRaises == script = "p51" => (pc # "raised" /\ exc = "none")

\* the variables of the read statements the content lines do not reach
RemainingNames(dl, rs) ==
    {rs[n].variables[m] : <<n, m>> \in
        {x \in (1..Len(rs)) \X (1..8) : x[1] > Len(dl) /\ x[2] <= Len(rs[x[1]].variables)}}

\* C4: with fewer content lines than read statements, the document has a
\* populated record for every statement a line reached and an unresolved
\* list with the variables of every other statement.
C4_ShortDatasetListsUnresolved ==
    (script = "perfect_yamls" /\ pc = "g_done" /\ Len(dat_lines) < Len(read_stmts)) =>
        /\ \A n \in 1..Len(dat_lines) :
              /\ RecordKey(n) \in DOMAIN yaml_dict["inputs"]
              /\ yaml_dict["inputs"][RecordKey(n)]["raw_value"] = dat_lines[n]
        /\ "unresolved" \in DOMAIN yaml_dict
        /\ {yaml_dict["unresolved"][n] : n \in DOMAIN yaml_dict["unresolved"]}
               = RemainingNames(dat_lines, read_stmts)

\* the decoder is past the block of lines 25-29
PastRecord1b ==
    script = "p51" /\ pc \notin {"gen_start", "skipped", "r1a", "r1b"}

\* C5: a token int() does not accept leaves only its own field unresolved:
\* the field (here nod, the second token of the second line) keeps the token
\* as its value and the fields after it in the record are decoded.
C5_BadTokenKept ==
    (/\ PastRecord1b
     /\ Len(lines) >= 2
     /\ Len(lines[2]) >= 2
     /\ lines[2][2].k = "word") =>
        /\ exc = "none"
        /\ "nod" \in DOMAIN data
        /\ data["nod"] = Unquote(lines[2])[2]
        /\ "dir" \in DOMAIN data

\* The 1-based line a field is decoded from, given the decoded counts.
FieldLine(g, d) ==
    CASE g = "type_2d" -> 1
      [] g \in {"element", "nod", "dir"} -> 2
      [] g \in {"nxe", "nye", "nip", "np_types"} -> 3
      [] g \in {"E", "nu"} -> 4
      [] g = "x_coords" -> 5
      [] g = "y_coords" -> 6
      [] g = "nr" -> 7
      [] g = "bc_table" -> 8
      [] g = "loaded_nodes" -> 8 + Max0(d["nr"])
      [] g = "nodal_loads" -> 9 + Max0(d["nr"])
      [] g = "fixed_freedoms" -> 9 + Max0(d["nr"]) + Max0(d["loaded_nodes"])
      [] OTHER -> 10 + Max0(d["nr"]) + Max0(d["loaded_nodes"])

\* the places of a dataset, from its third line on (where every token is
\* read as a number), that hold a word
MalformedSites(f) ==
    {x \in (3..Len(f)) \X (1..3) : x[2] <= Len(f[x[1]]) /\ f[x[1]][x[2]].k = "word"}

\* C6: two datasets that differ in one malformed token decode every field of
\* the lines after that token to the same value.
C6_Isolation ==
    (script = "p51" /\ pc \in {"return", "raised"}) =>
        \A x \in MalformedSites(file) :
            LET twin == [file EXCEPT ![x[1]][x[2]] = I(1)]
                td == parse_dat_file_p51(twin).data
            IN  \A g \in DOMAIN td :
                    FieldLine(g, td) > x[1] => (g \in DOMAIN data /\ data[g] = td[g])

\* the decoder has left the blocks of record 1 (lines 20-36), by reaching
\* record 2 or by an exception
Record1Over == script = "p51" /\ (pc = "r2" \/ (pc = "raised" /\ idx <= 2))

\* C7: when the first line holds eight tokens, the group of the first read
\* statement consumes that one line and gives the eight fields of record 1
\* its eight tokens, in order.
C7_RecordOneFromFirstLine ==
    (Record1Over /\ Len(lines) >= 1 /\ Len(lines[1]) = 8) =>
        /\ pc = "r2"
        /\ idx = 1
        /\    LET u == Unquote(lines[1])
              IN  /\ data["type_2d"] = u[1]
                  /\ data["element"] = u[2]
                  /\ data["nod"] = ToInt(u[3])
                  /\ data["dir"] = u[4]
                  /\ data["nxe"] = ToInt(u[5])
                  /\ data["nye"] = ToInt(u[6])
                  /\ data["nip"] = ToInt(u[7])
                  /\ data["np_types"] = ToInt(u[8])

\* C8: row j of bc_table is made of the j-th line after the count line (the
\* seventh line), its first three tokens being node, dof1 and dof2, and when
\* the group is done there is a row for every j in 1..nr.
C8_RowsFromLinesInOrder ==
    (script = "p51" /\ "bc_table" \in DOMAIN data) =>
        /\ \A j \in 1..Len(data["bc_table"]) :
              /\ 7 + j <= Len(lines)
              /\ data["bc_table"][j] = [node |-> ToInt(lines[7 + j][1]),
                                        dof1 |-> ToInt(lines[7 + j][2]),
                                        dof2 |-> ToInt(lines[7 + j][3])]
        /\ pc = "r4_row" => Len(data["bc_table"]) = i
        /\ pc = "r5_count" => Len(data["bc_table"]) = Max0(data["nr"])

C8_Witness ==
    /\ script = "p51" /\ pc = "r5_count"
    /\ data["nr"] = 2
    /\ Len(data["bc_table"]) = 2
    /\ data["bc_table"][1] # data["bc_table"][2]

\* C9: a table group with count n >= 0 moves the cursor by 1 + n lines:
\* the group of nr starts at cursor 6 and the next group at 6 + 1 + nr, the
\* group after that 1 + loaded_nodes further; a count of 0 gives an empty
\* table and moves the cursor by one.
C9_TableGroupAdvance ==
    script = "p51" =>
        /\ pc = "r4_count" => idx = 6
        /\ (pc = "r5_count" /\ data["nr"] >= 0) =>
              /\ idx = 6 + 1 + data["nr"]
              /\ data["nr"] = 0 => data["bc_table"] = <<>>
        /\ (pc = "r6" /\ data["loaded_nodes"] >= 0) =>
              /\ idx = (6 + 1 + Max0(data["nr"])) + 1 + data["loaded_nodes"]
              /\ data["loaded_nodes"] = 0 => data["nodal_loads"] = <<>>

C9_Witness ==
    /\ script = "p51" /\ pc = "r6"
    /\ data["nr"] = 2 /\ data["loaded_nodes"] = 0
    /\ idx = 10

\* C10: when fixed_freedoms is n > 0, the returned prescribed_displacements
\* table has n rows.
C10_RowsEqualGuard ==
    (Returned /\ data["fixed_freedoms"] > 0) =>
        Len(data["prescribed_displacements"]) = data["fixed_freedoms"]


\* process_case has read both files of the current case
BothRead == script = "main" /\ pc \in {"p_dry", "p_write"}

\* parse_dat_file has read the current case's .dat file, which opens
Parsed == BothRead /\ cases[case_i].dat_state = "ok"

\* a line without one layer of matching quote characters around it
TrimQuoteLayer(s) ==
    IF Len(s) >= 2 /\ s[1] = "'" /\ s[Len(s)] = "'"
    THEN SubSeq(s, 2, Len(s) - 1) ELSE s

\* the lines of f that are not empty and no comment once their surrounding
\* blanks are removed
ContentPlaces(f) ==
    {n \in 1..Len(f) : Strip(f[n]) # <<>> /\ Strip(f[n])[1] # "!"}

\* the same once a layer of matching quotes is removed too
QuoteTrimmedContentPlaces(f) ==
    {n \in 1..Len(f) :
        LET s == TrimQuoteLayer(Strip(f[n])) IN s # <<>> /\ s[1] # "!"}

\* the j-th element of out is the j-th line of f among the places S
InOrderAt(out, f, S, Form(_)) ==
    /\ Len(out) = Cardinality(S)
    /\ \A n \in S : out[Cardinality({m \in S : m <= n})] \in Form(f[n])

C12_UnopenableNoDocument ==
    script = "main" =>
        \A n \in 1..Len(cases) :
            (cases[n].src_state # "ok" \/ cases[n].dat_state # "ok")
                => outputs[n] = NoDoc

\* the run of main has ended
Halted == script = "main" /\ pc \in {"m_summary", "m_traceback"}

\* C13 as stated: whatever fails in a case, every case of the batch is
\* attempted and the loop runs to its summary.
C13_BatchRunsToSummary ==
    Halted => pc = "m_summary" /\ Len(results) = Len(cases)


\* find_read_statements has read the current case's source, which opens
Found == BothRead /\ cases[case_i].src_state = "ok"

\* the text of line n of the current case's source
SrcText(n) == cases[case_i].source[n].text

\* the lines of the current source that hold the read signature of channel
\* 10 in any case of letters
SigPlaces ==
    {n \in 1..Len(cases[case_i].source) :
        \E m \in 1..Len(SrcText(n)) : SrcText(n)[m] \in SigAtoms}

\* what stands after the signature in a line, without surrounding blanks
AfterSig(line) ==
    Strip(SubSeq(line, FirstOf(line, SigAtoms) + 1, Len(line)))

Marks == {" ", ",", "!", "(", ")", "'"}

\* a list of names with single commas between them, and its names
SimpleList(s) ==
    /\ Len(s) % 2 = 1
    /\ \A m \in 1..Len(s) : IF m % 2 = 1 THEN s[m] \notin Marks ELSE s[m] = ","

Names(s) == [j \in 1..((Len(s) + 1) \div 2) |-> <<s[2 * j - 1]>>]

\* C14: find_read_statements returns exactly one descriptor per source line
\* that holds the read signature of channel 10, in any case of letters; each
\* carries its 1-based line number, the line numbers strictly increase, and
\* a simple comma-separated list gives its names in the order written.
C14_OneDescriptorPerReadLine ==
    Found =>
        /\ Len(read_stmts) = Cardinality(SigPlaces)
        /\ {read_stmts[j].line : j \in 1..Len(read_stmts)} = SigPlaces
        /\ \A j \in 1..(Len(read_stmts) - 1) :
               read_stmts[j].line < read_stmts[j + 1].line
        /\ \A j \in 1..Len(read_stmts) :
               LET list == AfterSig(SrcText(read_stmts[j].line))
               IN  SimpleList(list) => read_stmts[j].variables = Names(list)

\* a lower-case read on line 1, no read on line 2, a read of two names on
\* line 3
C14_Witness ==
    /\ Found
    /\ Len(cases[case_i].source) = 3
    /\ SrcText(1)[2] = "read(10,*)"
    /\ SrcText(2) = <<"READ(11,*)", "nn">>
    /\ Len(read_stmts) = 2
    /\ read_stmts[1].line = 1
    /\ read_stmts[2].line = 3
    /\ read_stmts[2].variables = << <<"nels">>, <<"nn">> >>

\* C15 as stated: the variable part nr,(k,nf(:,k),i=1,nr) gives exactly two
\* variable tokens, the implied loop being one of them.
C15_ImpliedLoopOneToken ==
    Found =>
        \A j \in 1..Len(read_stmts) :
            AfterSig(SrcText(read_stmts[j].line)) = ImpliedLoop =>
                read_stmts[j].variables =
                    << <<"nr">>, SubSeq(ImpliedLoop, 3, Len(ImpliedLoop)) >>

\* the first "!" after the signature of a line (0: none)
BangAfterSig(line) ==
    LET p == FirstOf(line, SigAtoms)
        q == FirstOf(SubSeq(line, p + 1, Len(line)), {"!"})
    IN  IF q = 0 THEN 0 ELSE p + q

\* C16: what follows the first "!" after the read signature gives no
\* variable token: the variable list of a statement with a trailing comment
\* is the list of the same statement without the comment.
C16_CommentGivesNoToken ==
    Found =>
        \A j \in 1..Len(read_stmts) :
            LET line == SrcText(read_stmts[j].line)
                b == BangAfterSig(line)
            IN  b # 0 =>
                    /\ read_stmts[j].variables =
                           Descriptor(1, SubSeq(line, 1, b - 1)).variables
                    /\ \A v \in 1..Len(read_stmts[j].variables) :
                           \A m \in 1..Len(read_stmts[j].variables[v]) :
                               read_stmts[j].variables[v][m]
                                   \notin {"!", "e", "v", "none"}

\* read(10,*) prop ! e,v gives the one variable prop
C16_Witness ==
    /\ Found
    /\ \E j \in 1..Len(read_stmts) :
           /\ SrcText(read_stmts[j].line) =
                  <<" ", "read(10,*)", " ", "prop", " ", "!", " ", "e", ",", "v">>
           /\ read_stmts[j].variables = << <<"prop">> >>


\* generate_yaml_from_source has returned the document of the current case
Generated == script = "main" /\ pc = "p_write"

\* the schema of the document
Schema == yaml_dict["input_schema"].reads_in_order

\* C17 as stated: a schema entry carries a condition exactly when its read
\* statement stands under an IF, and the condition recorded is the whole
\* text between the parentheses of that IF.
C17_ConditionIsTheGuard ==
    Generated /\ cases[case_i].src_state = "ok" =>
        \A j \in 1..Len(Schema) :
            LET guard == cases[case_i].source[read_stmts[j].line].guard
            IN  /\ ("condition" \in DOMAIN Schema[j]) <=> (guard # <<>>)
                /\ guard # <<>> => Schema[j]["condition"].cond = guard

\* C18: a line that holds the read signature and no variable list after it
\* still gives a descriptor, with an empty variable list, and the read
\* lines after it give their descriptors.
C18_NoListStillDescribed ==
    Found =>
        \A n \in SigPlaces :
            (AfterSig(SrcText(n)) = <<>> \/ AfterSig(SrcText(n))[1] = "!") =>
                /\ \E j \in 1..Len(read_stmts) :
                       read_stmts[j].line = n /\ read_stmts[j].variables = <<>>
                /\ \A m \in SigPlaces :
                       m > n => \E j \in 1..Len(read_stmts) : read_stmts[j].line = m

\* a bare READ(10,*) on line 1 and a read of two names on line 2
C18_Witness ==
    /\ Found
    /\ Len(cases[case_i].source) = 2
    /\ SrcText(1) = <<" ", "READ(10,*)", " ">>
    /\ Len(read_stmts) = 2
    /\ read_stmts[1].variables = <<>>
    /\ read_stmts[2].variables = << <<"nels">>, <<"nn">> >>

\* C19: the schema has one entry per descriptor, in order: as many entries
\* as descriptors, entry i with record number i and the statement text and
\* variable list of the i-th descriptor.
C19_SchemaFollowsDescriptors ==
    Generated =>
        /\ Len(Schema) = Len(read_stmts)
        /\ \A j \in 1..Len(Schema) :
               /\ Schema[j].record = j
               /\ Schema[j].fortran_read = read_stmts[j].stmt
               /\ Schema[j].variables = read_stmts[j].variables

\* no read on line 1: the entries 1 and 2 are those of the reads on lines 2
\* and 3
C19_Witness ==
    /\ Generated
    /\ Len(cases[case_i].source) = 3
    /\ SrcText(1) = <<"READ(11,*)", "nn">>
    /\ Len(Schema) = 2
    /\ Schema[1].record = 1 /\ read_stmts[1].line = 2
    /\ Schema[2].record = 2 /\ read_stmts[2].line = 3
    /\ Schema[2].variables = << <<"nels">>, <<"nn">> >>


\* the tables of the p51 dataset, each with its row-count field and the
\* position of the decoder where the rows are read
TableCounts ==
    { [count |-> "nr", table |-> "bc_table", at |-> {"r4_row"}],
      [count |-> "loaded_nodes", table |-> "nodal_loads", at |-> {"r5_row"}],
      [count |-> "fixed_freedoms", table |-> "prescribed_displacements",
       at |-> {"r7_init", "r7_row"}] }

\* the number of the record of the document that holds a field
RecordOf(doc, field) ==
    CHOOSE n \in 1..7 :
        RecordKey(n) \in DOMAIN doc /\ field \in DOMAIN doc[RecordKey(n)]

InDoc(doc, field) ==
    \E n \in 1..7 : RecordKey(n) \in DOMAIN doc /\ field \in DOMAIN doc[RecordKey(n)]

\* C20 as stated: the row count of every table stands in a record strictly
\* earlier than the record that holds the table.
C20_CountInEarlierRecord ==
    script = "p51" /\ pc = "generated" =>
        \A tc \in TableCounts :
            InDoc(yaml_inputs, tc.table) =>
                RecordOf(yaml_inputs, tc.count) < RecordOf(yaml_inputs, tc.table)

\* C20, amended: the row count of every table is decoded before the table
\* is begun and before any of its rows is read, and stands in the same
\* record as the table (nr, loaded_nodes) or in an earlier one
\* (fixed_freedoms); the decoder never reads a row count that has not been
\* decoded.
C20_CountDecodedBeforeRows ==
    script = "p51" =>
        \A tc \in TableCounts :
            /\ pc \in tc.at => tc.count \in DOMAIN data
            /\ tc.table \in DOMAIN data => tc.count \in DOMAIN data
            /\ (pc = "generated" /\ InDoc(yaml_inputs, tc.table)) =>
                   /\ InDoc(yaml_inputs, tc.count)
                   /\ RecordOf(yaml_inputs, tc.count)
                          <= RecordOf(yaml_inputs, tc.table)

\* a document with rows in bc_table (record 4, with nr) and in
\* prescribed_displacements (record 7, fixed_freedoms in record 6)
C20_Witness ==
    /\ script = "p51" /\ pc = "generated"
    /\ "record7" \in DOMAIN yaml_inputs
    /\ yaml_inputs["record4"].nr >= 1
    /\ Len(yaml_inputs["record4"].bc_table) = yaml_inputs["record4"].nr
    /\ yaml_inputs["record6"].fixed_freedoms >= 1


\* the record keys among the keys of a written file, in the file's order
RecordsOf(keys) ==
    SelectSeq(keys, LAMBDA a : \E n \in 1..Len(RecordKeys) : RecordKeys[n] = a)

\* C21: the file written for a case lists the records of its document by
\* increasing record number (record1, record2, .., record10, ..), each once,
\* not in alphabetical order of the keys; and two cases of a batch with the
\* same input get the same document in the same order.
C21_RecordsInRecordOrder ==
    script = "main" =>
        \A n \in 1..Len(cases) :
            outputs[n] # NoDoc =>
                /\ \A j \in 1..Len(RecordsOf(dumped_keys[n])) :
                       RecordsOf(dumped_keys[n])[j] = RecordKeys[j]
                /\ {dumped_keys[n][j] : j \in 1..Len(dumped_keys[n])}
                       = DOMAIN outputs[n]["inputs"]
                /\ Len(dumped_keys[n]) = Cardinality(DOMAIN outputs[n]["inputs"])
                /\ \A m \in 1..Len(cases) :
                       (outputs[m] # NoDoc /\ cases[m] = cases[n]) =>
                           /\ outputs[m] = outputs[n]
                           /\ dumped_keys[m] = dumped_keys[n]

\* the case of eleven records written twice in a batch: record10 and
\* record11 stand after record9 in both files
C21_Witness ==
    /\ script = "main" /\ Len(cases) = 2
    /\ cases[1] = LongCase /\ cases[2] = LongCase
    /\ outputs[1] # NoDoc /\ outputs[2] # NoDoc
    /\ SubSeq(dumped_keys[2], 12, 14) = <<"record9", "record10", "record11">>


\* parse_dat_file_p51 has ended, by return or by an exception
Ended == script = "p51" /\ pc \in {"return", "generated", "raised", "failed"}

SoloDoc(c) ==
    generate_yaml_from_source(parse_dat_file(c.dat_state, c.raw),
                              find_read_statements(c.src_state, Text(c.source)))

\* C23: the document written for a case of a batch is the document of that
\* case processed alone, whatever cases came before it in the batch, failed
\* ones included; and a case that returned False wrote no document.
C23_NoStateAcrossCases ==
    script = "main" =>
        \A n \in 1..Len(cases) :
            /\ outputs[n] \in {NoDoc, SoloDoc(cases[n])}
            /\ (n <= Len(results) /\ ~dry_run) =>
                   /\ results[n] =
                          (cases[n].src_state # "missing"
                               /\ cases[n].dat_state # "missing")
                   /\ results[n] <=> outputs[n] # NoDoc

\* a case written as second of a batch, after a case whose .dat file is
\* missing
C23_Witness ==
    /\ script = "main" /\ pc = "m_summary" /\ Len(cases) = 2
    /\ cases[1].dat_state = "missing"
    /\ cases[2] = Case(P54, "ok", GoodSource, "ok", GoodRaw)
    /\ results = <<FALSE, TRUE>>
    /\ outputs[2] = SoloDoc(cases[2])


\* C25: with dry_run set no step of either generator writes a file or makes
\* the output directory, and process_case returns True for every case whose source
\* and .dat files exist (False for the others).
C25_DryRunWritesNothing ==
    /\ [][(script \in {"main", "bundles"} /\ dry_run) =>
              /\ outputs' = outputs
              /\ dumped_keys' = dumped_keys
              /\ output_dir' = output_dir]_vars
    /\ [](script = "main" /\ dry_run =>
              \A n \in 1..Len(results) :
                  results[n] = (cases[n].src_state # "missing"
                                    /\ cases[n].dat_state # "missing"))

\* a dry run over a case with both files and a case without its source:
\* True and False, no file and no directory
C25_Witness ==
    /\ script = "main" /\ dry_run /\ pc = "m_summary" /\ Len(cases) = 2
    /\ cases[1].src_state = "ok" /\ cases[1].dat_state = "ok"
    /\ cases[2].src_state = "missing"
    /\ results = <<TRUE, FALSE>>
    /\ ~output_dir
    /\ \A n \in 1..2 : outputs[n] = NoDoc


\* generate_yaml_from_source has returned, called alone or by process_case
Mapped == (script = "perfect_yamls" /\ pc = "g_done") \/ Generated

\* C27: 'inputs' holds exactly record1 .. recordk for k the smaller of the
\* number of content lines and the number of read statements; record i
\* holds the i-th content line as raw value and names the variables of the
\* i-th read statement.
C27_PairsByPosition ==
    Mapped =>
        LET inputs == yaml_dict["inputs"]
            k == IF Len(dat_lines) <= Len(read_stmts) THEN Len(dat_lines)
                 ELSE Len(read_stmts)
        IN  /\ DOMAIN inputs \ {"working_directory", "basename", "dat_file"}
                   = {RecordKeys[n] : n \in 1..k}
            /\ \A n \in 1..k :
                   /\ inputs[RecordKeys[n]].raw_value = dat_lines[n]
                   /\ inputs[RecordKeys[n]].description.names
                          = read_stmts[n].variables

\* three content lines and two read statements give two records
C27_Witness ==
    /\ script = "perfect_yamls" /\ pc = "g_done"
    /\ Len(dat_lines) = 3 /\ Len(read_stmts) = 2
    /\ "record2" \in DOMAIN yaml_dict["inputs"]
    /\ "record3" \notin DOMAIN yaml_dict["inputs"]


\* the first line of the dataset (0-based) that no statement has read yet:
\* the cursor, or the line after it inside the loops of records 4 and 5,
\* which move the cursor before they read
Floor == IF pc \in {"r4_row", "r5_row"} THEN idx + 1 ELSE idx

\* the next statement of the decoder reads a line: lines[Floor]
ReadsLine ==
    \/ /\ pc \in {"r1a", "r1b", "r1c", "r2", "r3x", "r3y", "r4_count",
                  "r5_count", "r6"}
       /\ idx < Len(lines)
    \/ pc = "r4_row" /\ i < data["nr"] /\ idx + 1 < Len(lines)
    \/ pc = "r5_row" /\ i < data["loaded_nodes"] /\ idx + 1 < Len(lines)
    \/ pc = "r7_row" /\ i < data["fixed_freedoms"] /\ idx < Len(lines)

\* C26: in a run of parse_dat_file_p51 the line cursor never decreases, and
\* every statement that reads a line reads the first line not read before
\* and leaves the lines up to it behind: no line is read twice, and what a
\* later record reads lies after what every earlier record read.
C26_CursorOnlyForward ==
    [][script = "p51" =>
          /\ idx' >= idx
          /\ Floor' >= Floor
          /\ (ReadsLine /\ pc' # "raised") => Floor' > Floor]_vars

\* a run that returned after reading every line of its dataset, with rows
\* in bc_table and in prescribed_displacements
C26_Witness ==
    /\ script = "p51" /\ pc = "return"
    /\ idx = Len(lines) /\ Len(lines) >= 9
    /\ Len(data["bc_table"]) >= 1
    /\ Len(data["prescribed_displacements"]) >= 1

\* what verify_yaml_file says of a file
IsValid(f) == verify_yaml_file(f).out = "return" /\ verify_yaml_file(f).is_valid

AllFilesValid == \A n \in 1..Len(yaml_files) : IsValid(yaml_files[n])

HasId(f) == f.load = "ok" /\ f.root = "dict" /\ "id" \in DOMAIN f.data

\* two of the files found carry the same id
SharedId ==
    \E n, m \in 1..Len(yaml_files) :
        /\ n < m
        /\ HasId(yaml_files[n]) /\ HasId(yaml_files[m])
        /\ yaml_files[n].data["id"] = yaml_files[m].data["id"]

\* C24 as it is stated: whenever main of verify_yamls.py returns, it returns
\* 0 exactly when every file found is valid and no two files carry the same
\* id.
C24_ZeroIffValidAndDistinct ==
    (script = "verify_yamls" /\ pc = "v_return") =>
        (exit_code = <<0>> <=> (AllFilesValid /\ ~SharedId))

\* C24, amended: when the benchmarks directory exists, main returns 0
\* exactly when every file found is valid and no two files carry the same
\* id; two files with the same id make it return 1 whether or not each is
\* valid; and a run that ends in the TypeError of verify_yaml_file returns
\* nothing and has met a file that is not valid.
C24_ZeroIffValidAndDistinctInDirectory ==
    script = "verify_yamls" =>
        /\ (pc = "v_return" /\ benchmarks_dir) =>
              /\ exit_code = <<0>> <=> (AllFilesValid /\ ~SharedId)
              /\ SharedId => exit_code = <<1>>
        /\ (pc = "v_return" /\ ~benchmarks_dir) => exit_code = <<1>>
        /\ pc = "v_traceback" => (exit_code = <<>> /\ ~AllFilesValid)

\* two files, each valid by itself, with the same id: the run fails
C24_Witness ==
    /\ script = "verify_yamls" /\ pc = "v_return"
    /\ Len(yaml_files) = 2
    /\ yaml_files[1] # yaml_files[2]
    /\ IsValid(yaml_files[1]) /\ IsValid(yaml_files[2])
    /\ SharedId
    /\ report = <<"valid", "valid">>
    /\ exit_code = <<1>>

\* a document whose required keys are all there and well formed
WellFormed(d) ==
    /\ \A n \in 1..Len(REQUIRED_KEYS) : REQUIRED_KEYS[n] \in DOMAIN d
    /\ GoodId(d["id"])
    /\ \A key \in {"code", "fem", "analysis"} : d[key].kind = "dict"

TopLevelSource(f) ==
    /\ f.load = "ok" /\ f.root = "dict"
    /\ WellFormed(f.data)
    /\ "source" \in DOMAIN f.data
    /\ f.data["source"].kind = "dict"

\* C28: a document with all required keys and a top-level 'source'
\* dictionary is reported valid whatever its 'authors' key holds, and a
\* document with neither 'source' nor 'authors' is reported invalid.
C28_SourceInEitherPlace ==
    script = "verify_yamls" =>
        /\ \A n \in 1..Len(report) :
              /\ TopLevelSource(yaml_files[n]) => report[n] = "valid"
              /\ ( /\ yaml_files[n].load = "ok" /\ yaml_files[n].root = "dict"
                   /\ "source" \notin DOMAIN yaml_files[n].data
                   /\ "authors" \notin DOMAIN yaml_files[n].data )
                 => report[n] = "invalid"
        /\ pc = "v_traceback" => ~TopLevelSource(yaml_files[yaml_file + 1])
============================================================================
